---- MODULE Spec2Model ----
(***************************************************************************)
(* Model of exportify (exportmapify): inference of package.json `exports`  *)
(* maps from usage data and on-disk layout.                                *)
(*                                                                         *)
(* Strings are modelled as sequences of lexemes: the separators ".", "/"   *)
(* and "-" are lexemes of their own and every other lexeme is a word of    *)
(* letters ("lib", "utils", "js").  Every string operation of the source   *)
(* (startsWith, slice, split, lastIndexOf, the regular expressions) only   *)
(* ever cuts a string at a separator, so it is computed on the lexeme      *)
(* sequence exactly as the source computes it on characters.               *)
(***************************************************************************)
EXTENDS Integers, Sequences, FiniteSets, TLC

VARIABLES
    fs,            \* files on disk below the package directory (canonical relative paths)
    contents,      \* what the content sniff of detectModuleType sees in the main file
    packageJson,   \* the parsed package.json of the package
    usage,         \* usageData[pkg.name].importPaths
    dryRun,        \* options.dryRun
    startMap,      \* generateExportsMap: exportsMap before the usage loop
    exportsMap,    \* generateExportsMap: returned map
    expanded,      \* generateExportsMap: per import path, what expandUsageWithPattern returned
    buildPattern,  \* generateExportsMap / detectBuildPattern: detected pattern
    wrote,         \* updatePackageJson: return value of the last call
    runs,          \* number of completed fixExports runs
    fixes,         \* number of completed fixExports runs that were not dry runs
    browserResult, \* parseBrowserField: returned value
    path,          \* the path argument of the function under study, then its result chain
    calls,         \* number of applications of the function under study so far
    detected,      \* detectModuleType: returned value
    tree,          \* the package.json files on disk: name, parsed content, under cwd or not
    usageData,     \* the usage file: package name -> usage record
    options,       \* the options of the last command
    written,       \* fixExports: indices in tree of the package.json files the last run wrote
    printed,       \* fixExports: indices in tree of the packages the last run logged a result for
    generated,     \* fixExports: per index in tree, the map the last run generated, or None
    repos,         \* evaluateUsage: per repository, its packages, imports and dependencies
    foundSource,   \* findSourceFile: returned value, <<>> for null
    inputs,        \* batchProcessFiles: per input, what its operation does
    batchConfig,   \* batchProcessFiles: concurrency and continueOnError
    batch,         \* batchProcessFiles: idle, running, awaiting, resolved or rejected
    chunks,        \* batchProcessFiles: the chunks of input indices
    chunkIndex,    \* batchProcessFiles: the chunk the loop is at
    ops,           \* batchProcessFiles: per input, the promise of its callback
    batchResults,  \* batchProcessFiles: results
    errors,        \* batchProcessFiles: errors
    returned,      \* batchProcessFiles: successCount and failureCount of the value returned
    cache,         \* getFileExistenceFromCache: the cache, clean path -> exists
    answers,       \* getFileExistenceFromCache: per call so far, the path given and the value returned
    probes         \* getFileExistenceFromCache: number of fileExistsSync calls so far

\* the state of commands over a tree of packages
treeVars == <<detected, tree, usageData, options, written, printed, generated, repos>>

\* the state of the file utilities
batchVars == <<inputs, batchConfig, batch, chunks, chunkIndex, ops, batchResults, errors,
               returned>>
cacheVars == <<cache, answers, probes>>
utilVars == <<foundSource, batchVars, cacheVars>>

\* the state of generateExportsMap and of the functions studied alone
coreVars == <<fs, contents, packageJson, usage, dryRun, startMap, exportsMap, expanded,
              buildPattern, wrote, runs, fixes, browserResult, path, calls>>

vars == <<fs, contents, packageJson, usage, dryRun, startMap, exportsMap, expanded,
          buildPattern, wrote, runs, fixes, browserResult, path, calls, treeVars, utilVars>>

None == [kind |-> "undefined"]

----------------------------------------------------------------------------
(* Bounds *)

MaxLen == 4        \* longest string handed to normalizeRelativePath
MaxCalls == 2      \* applications of normalizeRelativePath in a row
MaxFiles == 2      \* files on disk in a package
MaxEntryFiles == 3 \* files on disk in a package probed by generateExportEntry alone
MaxPatternFiles == 3 \* files on disk in a dual-build package
MaxSourceFiles == 3 \* source files on disk in a package probed by findSourceFile alone
MaxRuns == 2       \* consecutive fixExports runs
MaxUsage == 1      \* import paths in a usage record
MaxOrderPaths == 2 \* import paths in a usage record whose order is varied
MaxBrowserKeys == 2 \* keys of an object-form browser field
MaxPackages == 2   \* package.json files on disk
MaxTreeRuns == 2   \* consecutive fixExports runs on a tree of packages
MaxImports == 2    \* import statements in the sources of the consumer repository
MaxScans == 2      \* consecutive evaluateUsage runs
MaxInputs == 4     \* inputs of a batch
MaxConcurrency == 2 \* batchConfig.concurrency
MaxLookups == 3     \* getFileExistenceFromCache calls on one cache

----------------------------------------------------------------------------
(* String primitives *)

S(a) == <<a>>
DOT == "."
SEP == "/"

Drop(s, n) == SubSeq(s, n + 1, Len(s))
Take(s, n) == SubSeq(s, 1, n)

StartsWith(s, p) == Len(s) >= Len(p) /\ Take(s, Len(p)) = p
EndsWith(s, p) == Len(s) >= Len(p) /\ Drop(s, Len(s) - Len(p)) = p

\* String.prototype.lastIndexOf for a one-character needle; 0 when absent (JS: -1)
LastIndexOf(s, c) ==
    IF \E i \in 1..Len(s) : s[i] = c
    THEN CHOOSE i \in 1..Len(s) : s[i] = c /\ \A j \in (i + 1)..Len(s) : s[j] # c
    ELSE 0

\* String.prototype.indexOf for a substring; 0 when absent
IndexOfSub(s, p) ==
    IF \E i \in 1..(Len(s) - Len(p) + 1) : SubSeq(s, i, i + Len(p) - 1) = p
    THEN CHOOSE i \in 1..(Len(s) - Len(p) + 1) :
            /\ SubSeq(s, i, i + Len(p) - 1) = p
            /\ \A j \in 1..(i - 1) : SubSeq(s, j, j + Len(p) - 1) # p
    ELSE 0

Includes(s, p) == IndexOfSub(s, p) # 0

\* String.prototype.replace(p, r) with a string pattern: first occurrence only
ReplaceFirst(s, p, r) ==
    LET i == IndexOfSub(s, p)
    IN IF i = 0 THEN s ELSE Take(s, i - 1) \o r \o Drop(s, i + Len(p) - 1)

RECURSIVE Split(_, _)
\* String.prototype.split(c)
Split(s, c) ==
    IF \A i \in 1..Len(s) : s[i] # c
    THEN <<s>>
    ELSE LET i == CHOOSE k \in 1..Len(s) : s[k] = c /\ \A j \in 1..(k - 1) : s[j] # c
         IN <<Take(s, i - 1)>> \o Split(Drop(s, i), c)

RECURSIVE JoinWith(_, _)
\* Array.prototype.join(c)
JoinWith(parts, c) ==
    IF Len(parts) = 0 THEN <<>>
    ELSE IF Len(parts) = 1 THEN parts[1]
    ELSE parts[1] \o <<c>> \o JoinWith(Tail(parts), c)

RECURSIVE SelectSegs(_)
SelectSegs(parts) ==
    IF Len(parts) = 0 THEN <<>>
    ELSE IF parts[1] = <<>> \/ parts[1] = S(DOT) THEN SelectSegs(Tail(parts))
    ELSE <<parts[1]>> \o SelectSegs(Tail(parts))

\* path.join(packageDir, ...) seen from the package directory: empty and "."
\* segments disappear
PathJoin(p) == JoinWith(SelectSegs(Split(p, SEP)), SEP)

----------------------------------------------------------------------------
(* utils/normalizeRelativePath.ts *)

normalizeRelativePath_prefixDot(p) ==
    IF StartsWith(p, S(DOT)) THEN p ELSE <<DOT, SEP>> \o p

normalizeRelativePath(p) ==
    IF StartsWith(p, <<DOT, SEP>>) THEN p ELSE <<DOT, SEP>> \o p

----------------------------------------------------------------------------
(* core/analysis/detectBuildPattern.ts *)

CjsIdentifiers == {"cjs", "commonjs", "common", "node", "CJS"}
EsmIdentifiers == {"esm", "es", "module", "modules", "import", "ESM"}

NoPattern ==
    [hasMultipleBuilds |-> FALSE, patternType |-> "none",
     cjsPattern |-> <<>>, esmPattern |-> <<>>]

\* a present PathPattern is the pair <<basePath, identifier>>; an absent one is <<>>
PathPattern(basePath, identifier) == <<basePath, identifier>>

isCjsIdentifier(str) == Len(str) = 1 /\ str[1] \in CjsIdentifiers
isEsmIdentifier(str) == Len(str) = 1 /\ str[1] \in EsmIdentifiers

isCjsExtension(ext) == ext = <<DOT, "cjs">> \/ ext = <<DOT, "js">>
isEsmExtension(ext) == ext = <<DOT, "mjs">> \/ ext = <<DOT, "js">>

getFileExtension(p) ==
    LET lastDot == LastIndexOf(p, DOT)
    IN IF lastDot = 0 THEN <<>> ELSE Drop(p, lastDot - 1)

\* filename.match(/^([a-z]+)[.-]/i): <<>> when there is no match
extractPrefix(filename) ==
    IF /\ Len(filename) >= 2
       /\ filename[1] \notin {DOT, SEP, "-"}
       /\ filename[2] \in {DOT, "-"}
    THEN S(filename[1])
    ELSE <<>>

\* s.replace(/\.[^.]*$/, '')
StripLastExt(s) ==
    LET i == LastIndexOf(s, DOT)
    IN IF i = 0 THEN s ELSE Take(s, i - 1)

areFilenamesCompatible(filename1, filename2) ==
    \/ filename1 = filename2
    \/ StripLastExt(filename1) = StripLastExt(filename2)

detectDirectoryPattern_copyPaste(mainPath, modulePath) ==
    LET mainParts == Split(mainPath, SEP)
        moduleParts == Split(modulePath, SEP)
    IN IF Len(mainParts) # Len(moduleParts) THEN NoPattern
       ELSE IF ~areFilenamesCompatible(mainParts[Len(mainParts)], moduleParts[Len(moduleParts)])
       THEN NoPattern
       ELSE LET differ == {i \in 1..(Len(mainParts) - 1) : mainParts[i] # moduleParts[i]}
            IN IF Cardinality(differ) # 1 THEN NoPattern
               ELSE LET differIndex == CHOOSE i \in differ : TRUE
                        mainDir == mainParts[differIndex]
                        moduleDir == moduleParts[differIndex]
                        base == JoinWith(SubSeq(mainParts, 1, differIndex - 1), SEP)
                    IN IF (isCjsIdentifier(mainDir) /\ isEsmIdentifier(moduleDir))
                          \/ (isCjsIdentifier(moduleDir) /\ isEsmIdentifier(mainDir))
                       THEN [hasMultipleBuilds |-> TRUE, patternType |-> "directory",
                             cjsPattern |-> PathPattern(base, mainDir),
                             esmPattern |-> PathPattern(base, moduleDir)]
                       ELSE NoPattern

detectDirectoryPattern(mainPath, modulePath) ==
    LET mainParts == Split(mainPath, SEP)
        moduleParts == Split(modulePath, SEP)
    IN IF Len(mainParts) # Len(moduleParts) THEN NoPattern
       ELSE IF ~areFilenamesCompatible(mainParts[Len(mainParts)], moduleParts[Len(moduleParts)])
       THEN NoPattern
       ELSE LET differ == {i \in 1..(Len(mainParts) - 1) : mainParts[i] # moduleParts[i]}
            IN \* differIndex === -1, or a second difference
               IF Cardinality(differ) # 1 THEN NoPattern
               ELSE LET differIndex == CHOOSE i \in differ : TRUE
                        mainDir == mainParts[differIndex]
                        moduleDir == moduleParts[differIndex]
                        mainBase == JoinWith(SubSeq(mainParts, 1, differIndex - 1), SEP)
                        moduleBase == JoinWith(SubSeq(moduleParts, 1, differIndex - 1), SEP)
                    IN IF isCjsIdentifier(mainDir) /\ isEsmIdentifier(moduleDir)
                       THEN [hasMultipleBuilds |-> TRUE, patternType |-> "directory",
                             cjsPattern |-> PathPattern(mainBase, mainDir),
                             esmPattern |-> PathPattern(moduleBase, moduleDir)]
                       ELSE IF isCjsIdentifier(moduleDir) /\ isEsmIdentifier(mainDir)
                       THEN [hasMultipleBuilds |-> TRUE, patternType |-> "directory",
                             cjsPattern |-> PathPattern(moduleBase, moduleDir),
                             esmPattern |-> PathPattern(mainBase, mainDir)]
                       ELSE NoPattern

detectExtensionPattern(mainPath, modulePath) ==
    LET mainExt == getFileExtension(mainPath)
        moduleExt == getFileExtension(modulePath)
        \* both paths are normalized, so lastIndexOf('.') finds at least the leading dot
        mainWithoutExt == Take(mainPath, LastIndexOf(mainPath, DOT) - 1)
        moduleWithoutExt == Take(modulePath, LastIndexOf(modulePath, DOT) - 1)
    IN IF mainWithoutExt # moduleWithoutExt THEN NoPattern
       ELSE IF isCjsExtension(mainExt) /\ isEsmExtension(moduleExt)
       THEN [hasMultipleBuilds |-> TRUE, patternType |-> "extension",
             cjsPattern |-> PathPattern(mainWithoutExt, mainExt),
             esmPattern |-> PathPattern(moduleWithoutExt, moduleExt)]
       ELSE IF isCjsExtension(moduleExt) /\ isEsmExtension(mainExt)
       THEN [hasMultipleBuilds |-> TRUE, patternType |-> "extension",
             cjsPattern |-> PathPattern(moduleWithoutExt, moduleExt),
             esmPattern |-> PathPattern(mainWithoutExt, mainExt)]
       ELSE NoPattern

detectPrefixPattern(mainPath, modulePath) ==
    LET mainParts == Split(mainPath, SEP)
        moduleParts == Split(modulePath, SEP)
        lastIndex == Len(mainParts)
    IN IF Len(mainParts) # Len(moduleParts) THEN NoPattern
       ELSE IF \E i \in 1..(lastIndex - 1) : mainParts[i] # moduleParts[i] THEN NoPattern
       ELSE LET mainFilename == mainParts[lastIndex]
                moduleFilename == moduleParts[lastIndex]
                mainPrefix == extractPrefix(mainFilename)
                modulePrefix == extractPrefix(moduleFilename)
                base == JoinWith(SubSeq(mainParts, 1, lastIndex - 1), SEP)
            IN IF mainPrefix = <<>> \/ modulePrefix = <<>> THEN NoPattern
               ELSE IF Drop(mainFilename, 2) # Drop(moduleFilename, 2) THEN NoPattern
               ELSE IF isCjsIdentifier(mainPrefix) /\ isEsmIdentifier(modulePrefix)
               THEN [hasMultipleBuilds |-> TRUE, patternType |-> "prefix",
                     cjsPattern |-> PathPattern(base, mainPrefix),
                     esmPattern |-> PathPattern(base, modulePrefix)]
               ELSE IF isCjsIdentifier(modulePrefix) /\ isEsmIdentifier(mainPrefix)
               THEN [hasMultipleBuilds |-> TRUE, patternType |-> "prefix",
                     cjsPattern |-> PathPattern(base, modulePrefix),
                     esmPattern |-> PathPattern(base, mainPrefix)]
               ELSE NoPattern

\* a package.json field is None when absent; '' is falsy like undefined
Falsy(field) == field = None \/ field = [kind |-> "string", v |-> <<>>]
Str(v) == [kind |-> "string", v |-> v]

detectBuildPattern(mainField, moduleField) ==
    IF Falsy(mainField) \/ Falsy(moduleField) THEN NoPattern
    ELSE LET normalizedMain == normalizeRelativePath(mainField.v)
             normalizedModule == normalizeRelativePath(moduleField.v)
         IN IF normalizedMain = normalizedModule THEN NoPattern
            ELSE LET directoryPattern == detectDirectoryPattern(normalizedMain, normalizedModule)
                     extensionPattern == detectExtensionPattern(normalizedMain, normalizedModule)
                     prefixPattern == detectPrefixPattern(normalizedMain, normalizedModule)
                 IN IF directoryPattern.hasMultipleBuilds THEN directoryPattern
                    ELSE IF extensionPattern.hasMultipleBuilds THEN extensionPattern
                    ELSE IF prefixPattern.hasMultipleBuilds THEN prefixPattern
                    ELSE NoPattern

----------------------------------------------------------------------------
(* JavaScript objects with string keys: a sequence of <<key, value>> pairs *)
(* in insertion order (the order of Object.keys and of JSON.stringify)     *)

MapKeys(m) == {m[i][1] : i \in 1..Len(m)}
MapHas(m, k) == k \in MapKeys(m)
MapGet(m, k) == m[CHOOSE i \in 1..Len(m) : m[i][1] = k][2]
\* m[k] = v: an existing key keeps its position
MapSet(m, k, v) ==
    IF MapHas(m, k)
    THEN [i \in 1..Len(m) |-> IF m[i][1] = k THEN <<k, v>> ELSE m[i]]
    ELSE Append(m, <<k, v>>)

False == [kind |-> "false"]
Null == [kind |-> "null"]
Obj(v) == [kind |-> "object", v |-> v]

----------------------------------------------------------------------------
(* utils/parseBrowserField.ts *)

BrowserValue(value) == IF value = False THEN False ELSE Str(normalizeRelativePath(value.v))

RECURSIVE parseBrowserEntries(_, _, _, _, _)
\* the for loop over Object.entries(browserField), lines 67-90
parseBrowserEntries(entries, normalizedMain, normalizedModule, rootBrowser, browserMappings) ==
    IF Len(entries) = 0
    THEN [rootBrowser |-> rootBrowser, browserMappings |-> browserMappings]
    ELSE LET key == entries[1][1]
             value == entries[1][2]
             normalizedKey == normalizeRelativePath(key)
             rest == Tail(entries)
         IN IF normalizedMain # None /\ Str(normalizedKey) = normalizedMain
            THEN parseBrowserEntries(rest, normalizedMain, normalizedModule,
                    IF value # False THEN BrowserValue(value) ELSE rootBrowser,
                    browserMappings)
            ELSE IF normalizedModule # None /\ Str(normalizedKey) = normalizedModule
            THEN IF value # False /\ rootBrowser = None
                 THEN parseBrowserEntries(rest, normalizedMain, normalizedModule,
                         BrowserValue(value), browserMappings)
                 ELSE IF rootBrowser # None
                 THEN parseBrowserEntries(rest, normalizedMain, normalizedModule, rootBrowser,
                         MapSet(browserMappings, normalizedKey, BrowserValue(value)))
                 ELSE parseBrowserEntries(rest, normalizedMain, normalizedModule, rootBrowser,
                         browserMappings)
            ELSE parseBrowserEntries(rest, normalizedMain, normalizedModule, rootBrowser,
                    MapSet(browserMappings, normalizedKey, BrowserValue(value)))

\* a variant that compares the keys with main as written
parseBrowserField_rawMain(browserField, mainField, moduleField) ==
    IF browserField.kind = "string"
    THEN [rootBrowser |-> Str(normalizeRelativePath(browserField.v)), browserMappings |-> <<>>]
    ELSE LET normalizedMain ==
                 IF Falsy(mainField) THEN None ELSE Str(mainField.v)
             normalizedModule ==
                 IF Falsy(moduleField) THEN None ELSE Str(normalizeRelativePath(moduleField.v))
         IN parseBrowserEntries(browserField.v, normalizedMain, normalizedModule, None, <<>>)

parseBrowserField(browserField, mainField, moduleField) ==
    IF browserField.kind = "string"
    THEN [rootBrowser |-> Str(normalizeRelativePath(browserField.v)), browserMappings |-> <<>>]
    ELSE LET normalizedMain ==
                 IF Falsy(mainField) THEN None ELSE Str(normalizeRelativePath(mainField.v))
             normalizedModule ==
                 IF Falsy(moduleField) THEN None ELSE Str(normalizeRelativePath(moduleField.v))
         IN parseBrowserEntries(browserField.v, normalizedMain, normalizedModule, None, <<>>)

----------------------------------------------------------------------------
(* File system probes, relative to the package directory *)

\* fs.existsSync(path.join(packageDir, p)): a file or a directory
existsSync(files, p) ==
    LET q == PathJoin(p)
    IN \/ q = <<>>
       \/ q \in files
       \/ \E f \in files : StartsWith(f, q \o S(SEP))

\* existsSync(full) && statSync(full).isFile()
isFile(files, p) == PathJoin(p) \in files

\* the first of the candidates that pass, given as the set of their indices; 0 when none does
FirstIndex(hits) ==
    IF hits = {} THEN 0 ELSE CHOOSE i \in hits : \A j \in hits : i <= j

stripDotSlash(p) == IF StartsWith(p, <<DOT, SEP>>) THEN Drop(p, 2) ELSE p

\* s.replace(/\.(a|b|..)$/, r) for one-word extensions a, b, ..
ReplaceExt(s, exts, r) ==
    IF Len(s) >= 2 /\ s[Len(s) - 1] = DOT /\ s[Len(s)] \in exts
    THEN Take(s, Len(s) - 2) \o r
    ELSE s

DTS == <<DOT, "d", DOT, "ts">>
JS == <<DOT, "js">>

----------------------------------------------------------------------------
(* utils/findSourceFile.ts                                                 *)
(* The functions are declared async, and their bodies only probe the file  *)
(* system with existsSync; generateBaselineExports and                     *)
(* generateConditionalExport use the result without await, as the tests of *)
(* findSourceFile do.  They are modelled by the value they resolve to.     *)

SOURCE_MAPPINGS ==
    << <<<<SEP, "lib", SEP>>, <<SEP, "src", SEP>>>>,
       <<<<SEP, "dist", SEP>>, <<SEP, "src", SEP>>>>,
       <<<<SEP, "build", SEP>>, <<SEP, "source", SEP>>>>,
       <<<<SEP, "out", SEP>>, <<SEP, "src", SEP>>>> >>

SOURCE_DIRECTORIES == <<"src", "source">>

SOURCE_EXTENSIONS == << <<DOT, "ts">>, <<DOT, "tsx">>, <<DOT, "jsx">>, <<DOT, "js">> >>

BuildDirs == {"lib", "dist", "build", "out"}

\* returns <<>> for null
sourceFileAt(basePath, direct, index) ==
    IF direct # 0 THEN normalizeRelativePath(basePath \o SOURCE_EXTENSIONS[direct])
    ELSE IF index # 0
    THEN normalizeRelativePath(basePath \o <<SEP, "index">> \o SOURCE_EXTENSIONS[index])
    ELSE <<>>

tryFindSourceFile(files, basePath) ==
    sourceFileAt(basePath,
        FirstIndex({i \in 1..Len(SOURCE_EXTENSIONS) :
            existsSync(files, basePath \o SOURCE_EXTENSIONS[i])}),
        FirstIndex({i \in 1..Len(SOURCE_EXTENSIONS) :
            existsSync(files, basePath \o <<SEP, "index">> \o SOURCE_EXTENSIONS[i])}))

\* cleanPath.replace(/^(lib|dist|build|out)\//, '').replace(/\.(js|mjs|cjs|d\.ts)$/, '')
sourceBaseName(cleanPath) ==
    LET a == IF Len(cleanPath) >= 2 /\ cleanPath[1] \in BuildDirs /\ cleanPath[2] = SEP
             THEN Drop(cleanPath, 2) ELSE cleanPath
    IN IF EndsWith(a, DTS) THEN Take(a, Len(a) - 4)
       ELSE ReplaceExt(a, {"js", "mjs", "cjs"}, <<>>)

\* returns <<>> for null
\* lines 257-265: the source file under mapping i; <<>> when the mapping does not apply
mappedSource(files, cleanPath, i) ==
    IF Includes(cleanPath, SOURCE_MAPPINGS[i][1])
    THEN tryFindSourceFile(files,
            ReplaceFirst(cleanPath, SOURCE_MAPPINGS[i][1], SOURCE_MAPPINGS[i][2]))
    ELSE <<>>

\* lines 268-278: the source file under source directory i
directSource(files, cleanPath, i) ==
    tryFindSourceFile(files, <<SOURCE_DIRECTORIES[i], SEP>> \o sourceBaseName(cleanPath))

\* the first element of a list of results that is not null; <<>> when all are
FirstFound(results) ==
    IF \A i \in 1..Len(results) : results[i] = <<>> THEN <<>>
    ELSE results[FirstIndex({i \in 1..Len(results) : results[i] # <<>>})]

findSourceFileClean(files, cleanPath) ==
    FirstFound([i \in 1..Len(SOURCE_MAPPINGS) |-> mappedSource(files, cleanPath, i)]
               \o [i \in 1..Len(SOURCE_DIRECTORIES) |-> directSource(files, cleanPath, i)])

findSourceFile(files, targetPath) == findSourceFileClean(files, stripDotSlash(targetPath))

\* packageJson.source when it names an existing file, <<>> for null
findSourceFromPackageJson(files, pj) ==
    IF ~Falsy(pj.source) /\ existsSync(files, pj.source.v)
    THEN normalizeRelativePath(pj.source.v)
    ELSE <<>>

----------------------------------------------------------------------------
(* Export entries: a bare string, or a conditions object whose keys are    *)
(* kept in insertion order                                                 *)

\* obj[k] = v on a Record<string, string> under construction, when v is set
Put(conds, k, v) == IF v = <<>> THEN conds ELSE MapSet(conds, k, v)

\* if (cond) obj[k] = v
PutIf(cond, conds, k, v) == IF cond THEN Put(conds, k, v) ELSE conds

\* a || b on entries, None standing for null
OrElse(a, b) == IF a # None THEN a ELSE b

\* Object.keys(exportEntry).length === 1 ? exportEntry.default : exportEntry
Collapse(conds) == IF Len(conds) = 1 THEN Str(MapGet(conds, "default")) ELSE Obj(conds)

----------------------------------------------------------------------------
(* core/packages/generateExportEntry.ts *)

possibleExtensions ==
    << <<>>, <<DOT, "js">>, <<DOT, "ts">>, <<DOT, "jsx">>, <<DOT, "tsx">>,
       <<DOT, "mjs">>, <<DOT, "cjs">> >>
possibleBases == <<"lib", "dist", "build", "out">>

\* the (base, ext) pairs in the order the nested loops of lines 26-42 visit them
SearchBase(i) == possibleBases[((i - 1) \div Len(possibleExtensions)) + 1]
SearchExt(i) == possibleExtensions[((i - 1) % Len(possibleExtensions)) + 1]

endsWithTs(f) == EndsWith(f, <<DOT, "ts">>) \/ EndsWith(f, <<DOT, "tsx">>)

\* lines 45-78: the entry built for a file found by the exact search
exactEntry(files, foundFile, buildDir) ==
    LET prefix == <<DOT, SEP, buildDir, SEP>>
        jsPath == IF endsWithTs(foundFile)
                  THEN prefix \o ReplaceExt(foundFile, {"ts", "tsx"}, JS)
                  ELSE prefix \o foundFile
        sourceFile == findSourceFile(files, jsPath)
        typesFile == ReplaceExt(foundFile, {"js", "mjs", "cjs", "ts", "tsx"}, DTS)
        e1 == Put(<<>>, "source", sourceFile)
        e2 == PutIf(existsSync(files, <<buildDir, SEP>> \o typesFile),
                    e1, "types", prefix \o typesFile)
        e3 == Put(e2, "default", jsPath)
        e4 == PutIf(endsWithTs(foundFile), e3, "import", jsPath)
    IN Collapse(e4)

\* lines 80-96: prediction from src/<path>.ts; None when neither file exists
inferredFrom(cleanPath, srcExists, srcIndexExists) ==
    LET baseName == IF srcExists THEN cleanPath ELSE cleanPath \o <<SEP, "index">>
        sourceFilePath == IF srcExists
                          THEN <<DOT, SEP, "src", SEP>> \o cleanPath \o <<DOT, "ts">>
                          ELSE <<DOT, SEP, "src", SEP>> \o cleanPath \o <<SEP, "index", DOT, "ts">>
        lib == <<DOT, SEP, "lib", SEP>>
    IN IF srcExists \/ srcIndexExists
       THEN Obj(<< <<"source", sourceFilePath>>,
                   <<"types", lib \o baseName \o DTS>>,
                   <<"import", lib \o baseName \o JS>>,
                   <<"default", lib \o baseName \o JS>> >>)
       ELSE None

inferredEntry(files, cleanPath) ==
    inferredFrom(cleanPath,
                 existsSync(files, <<"src", SEP>> \o cleanPath \o <<DOT, "ts">>),
                 existsSync(files, <<"src", SEP>> \o cleanPath \o <<SEP, "index", DOT, "ts">>))

\* no last resort: null when no file is found
fallbackEntry_null(files, cleanPath) == None

\* lines 98-114: last resort
fallbackEntry(files, cleanPath) ==
    LET lib == <<DOT, SEP, "lib", SEP>>
        fallbackJsPath == lib \o cleanPath \o JS
        fallbackSourceFile == findSourceFile(files, fallbackJsPath)
        e1 == Put(<<>>, "source", fallbackSourceFile)
        e2 == Put(e1, "types", lib \o cleanPath \o DTS)
    IN Obj(Put(e2, "default", fallbackJsPath))

\* lines 26-42: the index of the (base, ext) pair the search stops at; 0 when none is found
searchBuildDirs(files, cleanPath) ==
    FirstIndex({i \in 1..(Len(possibleBases) * Len(possibleExtensions)) :
        \/ existsSync(files, <<SearchBase(i), SEP>> \o cleanPath \o SearchExt(i))
        \/ existsSync(files, <<SearchBase(i), SEP>> \o cleanPath
                                 \o <<SEP, "index">> \o SearchExt(i))})

\* lines 31-38: the file itself wins over its index file
foundFileAt(cleanPath, hit, isTestPath) ==
    IF isTestPath THEN cleanPath \o SearchExt(hit)
    ELSE cleanPath \o <<SEP, "index">> \o SearchExt(hit)

entryAfterSearch(files, cleanPath, hit) ==
    IF hit # 0
    THEN exactEntry(files,
            foundFileAt(cleanPath, hit,
                existsSync(files, <<SearchBase(hit), SEP>> \o cleanPath \o SearchExt(hit))),
            SearchBase(hit))
    ELSE OrElse(inferredEntry(files, cleanPath), fallbackEntry(files, cleanPath))

generateExportEntry(files, importPath) ==
    entryAfterSearch(files, stripDotSlash(importPath),
                     searchBuildDirs(files, stripDotSlash(importPath)))

----------------------------------------------------------------------------
(* core/exports/expandUsageWithPattern.ts *)

expandExtensions == << <<>>, <<DOT, "js">>, <<DOT, "mjs">>, <<DOT, "cjs">> >>

\* the loops of lines 143-191: first extension for which `<p><ext>` or
\* `<p>/index<ext>` is a file; <<>> for null
validPathAt(files, p, hit) ==
    IF hit = 0 THEN <<>>
    ELSE IF isFile(files, p \o expandExtensions[hit])
    THEN <<DOT, SEP>> \o p \o expandExtensions[hit]
    ELSE <<DOT, SEP>> \o p \o <<SEP, "index">> \o expandExtensions[hit]

findValidPath(files, p) ==
    validPathAt(files, p,
        FirstIndex({i \in 1..Len(expandExtensions) :
            \/ isFile(files, p \o expandExtensions[i])
            \/ isFile(files, p \o <<SEP, "index">> \o expandExtensions[i])}))

\* validOriginalPath || validEsmPath || validCjsPath
defaultPath_cjsFirst(validOriginalPath, validEsmPath, validCjsPath) ==
    IF validOriginalPath # <<>> THEN validOriginalPath
    ELSE IF validCjsPath # <<>> THEN validCjsPath
    ELSE validEsmPath

defaultPath(validOriginalPath, validEsmPath, validCjsPath) ==
    IF validOriginalPath # <<>> THEN validOriginalPath
    ELSE IF validEsmPath # <<>> THEN validEsmPath
    ELSE validCjsPath

\* lines 208-224: the declarations next to the original path, else next to the
\* first valid path; <<>> when neither exists
typesPathFor(originalTypesExists, originalTypesPath, fallbackTypesExists, fallbackTypesPath) ==
    IF originalTypesExists THEN originalTypesPath
    ELSE IF fallbackTypesExists THEN fallbackTypesPath
    ELSE <<>>

\* lines 193-246, once the three candidates are resolved; returns None for null
conditionalExport(validCjsPath, validEsmPath, validOriginalPath, sourceFile, typesPath) ==
    LET e1 == Put(<<>>, "source", sourceFile)
        e2 == Put(e1, "types", typesPath)
        e3 == Put(e2, "import", validEsmPath)
        e4 == Put(e3, "require", validCjsPath)
        e5 == Put(e4, "default", defaultPath(validOriginalPath, validEsmPath, validCjsPath))
    IN IF validCjsPath = <<>> /\ validEsmPath = <<>> /\ validOriginalPath = <<>> THEN None
       ELSE Obj(e5)

typesOfConditionalExport(files, originalPath, firstValid) ==
    typesPathFor(
        existsSync(files, ReplaceExt(originalPath, {"js", "mjs"}, DTS)),
        <<DOT, SEP>> \o ReplaceExt(originalPath, {"js", "mjs"}, DTS),
        existsSync(files, Drop(ReplaceExt(firstValid, {"js", "mjs"}, DTS), 2)),
        ReplaceExt(firstValid, {"js", "mjs"}, DTS))

resolvedConditionalExport(files, originalPath, validCjsPath, validEsmPath, validOriginalPath) ==
    conditionalExport(validCjsPath, validEsmPath, validOriginalPath,
        findSourceFile(files, <<DOT, SEP>> \o originalPath),
        typesOfConditionalExport(files, originalPath,
            defaultPath(validOriginalPath, validEsmPath, validCjsPath)))

\* returns None for null
generateConditionalExport(files, cjsPath, esmPath, originalPath) ==
    resolvedConditionalExport(files, originalPath,
        findValidPath(files, cjsPath),
        findValidPath(files, esmPath),
        findValidPath(files, originalPath))

expandDirectoryPattern(files, cleanPath, pattern) ==
    LET cjsBasePath == stripDotSlash(pattern.cjsPattern[1])
        esmBasePath == stripDotSlash(pattern.esmPattern[1])
        relativePath ==
            IF StartsWith(cleanPath, cjsBasePath \o S(SEP))
            THEN Drop(cleanPath, Len(cjsBasePath) + 1)
            ELSE IF StartsWith(cleanPath, esmBasePath \o S(SEP))
            THEN Drop(cleanPath, Len(esmBasePath) + 1)
            ELSE cleanPath
        cjsPath == cjsBasePath \o S(SEP) \o pattern.cjsPattern[2] \o S(SEP) \o relativePath
        esmPath == esmBasePath \o S(SEP) \o pattern.esmPattern[2] \o S(SEP) \o relativePath
    IN generateConditionalExport(files, cjsPath, esmPath, cleanPath)

\* cleanPath.replace(/\.[^.]+$/, '')
stripExtension(s) ==
    LET i == LastIndexOf(s, DOT)
    IN IF i = 0 \/ i = Len(s) THEN s ELSE Take(s, i - 1)

expandExtensionPattern(files, cleanPath, pattern) ==
    LET pathWithoutExt == stripExtension(cleanPath)
        adaptedCjsPath == pathWithoutExt \o pattern.cjsPattern[2]
        adaptedEsmPath == pathWithoutExt \o pattern.esmPattern[2]
    IN generateConditionalExport(files, adaptedCjsPath, adaptedEsmPath, cleanPath)

expandPrefixPattern(files, cleanPath, pattern) ==
    LET pathParts == Split(cleanPath, SEP)
        filename == pathParts[Len(pathParts)]
        dirPath == JoinWith(SubSeq(pathParts, 1, Len(pathParts) - 1), SEP)
        cjsFilename == pattern.cjsPattern[2] \o S(DOT) \o filename
        esmFilename == pattern.esmPattern[2] \o S(DOT) \o filename
        cjsPath == IF dirPath # <<>> THEN dirPath \o S(SEP) \o cjsFilename ELSE cjsFilename
        esmPath == IF dirPath # <<>> THEN dirPath \o S(SEP) \o esmFilename ELSE esmFilename
    IN generateConditionalExport(files, cjsPath, esmPath, cleanPath)

\* returns None for null
expandUsageWithPattern(files, usagePath, pattern) ==
    IF ~pattern.hasMultipleBuilds \/ pattern.cjsPattern = <<>> \/ pattern.esmPattern = <<>>
    THEN None
    ELSE LET cleanPath == stripDotSlash(usagePath)
         IN CASE pattern.patternType = "directory" ->
                    expandDirectoryPattern(files, cleanPath, pattern)
              [] pattern.patternType = "extension" ->
                    expandExtensionPattern(files, cleanPath, pattern)
              [] pattern.patternType = "prefix" ->
                    expandPrefixPattern(files, cleanPath, pattern)
              [] OTHER -> None

----------------------------------------------------------------------------
(* core/analysis/detectModuleType.ts *)

\* path.extname: the last dot of the last segment, unless it is its first character
extname(filePath) ==
    LET parts == Split(filePath, SEP)
        base == parts[Len(parts)]
        i == LastIndexOf(base, DOT)
    IN IF i <= 1 THEN <<>> ELSE Drop(base, i - 1)

\* a variant that consults the package type before the extension
detectModuleType_typeFirst(files, pj, sniff, filePath) ==
    IF pj.type = "module" THEN "esm"
    ELSE IF pj.type = "commonjs" THEN "cjs"
    ELSE IF extname(filePath) = <<DOT, "mjs">> THEN "esm"
    ELSE IF extname(filePath) = <<DOT, "cjs">> THEN "cjs"
    ELSE IF /\ existsSync(files, stripDotSlash(filePath))
            /\ isFile(files, stripDotSlash(filePath))
            /\ sniff.readable
    THEN IF sniff.esm THEN "esm"
         ELSE IF sniff.cjs THEN "cjs"
         ELSE "unknown"
    ELSE "unknown"

\* sniff: whether readFile of the file at filePath succeeds, and which token
\* families its content contains
detectModuleType(files, pj, sniff, filePath) ==
    IF extname(filePath) = <<DOT, "mjs">> THEN "esm"
    ELSE IF extname(filePath) = <<DOT, "cjs">> THEN "cjs"
    ELSE IF pj.type = "module" THEN "esm"
    ELSE IF pj.type = "commonjs" THEN "cjs"
    \* readFile of a directory or of an unreadable file throws and is caught
    ELSE IF /\ existsSync(files, stripDotSlash(filePath))
            /\ isFile(files, stripDotSlash(filePath))
            /\ sniff.readable
    THEN IF sniff.esm THEN "esm"
         ELSE IF sniff.cjs THEN "cjs"
         ELSE "unknown"
    ELSE "unknown"

----------------------------------------------------------------------------
(* core/exports/generateBaselineExports.ts *)

\* a variant that skips the mappings whose value is false
RECURSIVE browserEntries_skipBlocked(_, _, _)
browserEntries_skipBlocked(files, mappings, map) ==
    IF Len(mappings) = 0 THEN map
    ELSE IF mappings[1][2] = False
    THEN browserEntries_skipBlocked(files, Tail(mappings), map)
    ELSE browserEntries_skipBlocked(files, Tail(mappings),
            MapSet(map, mappings[1][1],
                   Obj(Put(Put(Put(<<>>, "source", findSourceFile(files, mappings[1][1])),
                               "browser", mappings[1][2].v),
                           "default", mappings[1][1]))))

\* lines 89-120: one export entry per browser mapping
RECURSIVE browserEntries(_, _, _)
browserEntries(files, mappings, map) ==
    IF Len(mappings) = 0 THEN map
    ELSE LET key == mappings[1][1]
             value == mappings[1][2]
             sourceFile == findSourceFile(files, key)
             e1 == Put(<<>>, "source", sourceFile)
             e2 == PutIf(value # False, e1, "browser", value.v)
             e3 == Put(e2, "default", key)
         IN browserEntries(files, Tail(mappings), MapSet(map, key, Obj(e3)))

\* a || b on paths, <<>> standing for null
OrPath(a, b) == IF a # <<>> THEN a ELSE b

\* lines 126-132: the conditions of the root entry in the fixed order
orderedExport(source, types, modulePath, requirePath, rootBrowser, mainPath) ==
    LET o1 == Put(<<>>, "source", source)
        o2 == Put(o1, "types", types)
        o3 == Put(o2, "import", modulePath)
        o4 == Put(o3, "require", requirePath)
        o5 == PutIf(rootBrowser # None, o4, "browser", rootBrowser.v)
    IN Put(o5, "default", mainPath)

\* a variant without the fallback of lines 136-139
rootEntry_noFallback(ordered) ==
    IF Len(ordered) = 1 THEN Str(ordered[1][2]) ELSE Obj(ordered)

\* lines 123-139: the root entry, a bare string when it has a single condition
rootEntry(ordered) ==
    IF Len(ordered) = 0 THEN Str(<<DOT, SEP, "lib", SEP, "index", DOT, "js">>)
    ELSE IF Len(ordered) = 1 THEN Str(ordered[1][2])
    ELSE Obj(ordered)

\* the field as written in package.json
fieldPath_raw(field) == IF Falsy(field) THEN <<>> ELSE field.v

\* the normalized field, <<>> when the field is not set
fieldPath(field) == IF Falsy(field) THEN <<>> ELSE normalizeRelativePath(field.v)

\* lines 29-35: packageJson.types || packageJson.typings
typesField(pj) == IF Falsy(pj.types) THEN pj.typings ELSE pj.types

\* lines 23-26, 49-55, 63-69: package.json source, else the source of main, else of module
rootSource(files, pj) ==
    OrPath(findSourceFromPackageJson(files, pj),
           OrPath(IF Falsy(pj.main) THEN <<>> ELSE findSourceFile(files, fieldPath(pj.main)),
                  IF Falsy(pj.module) THEN <<>> ELSE findSourceFile(files, fieldPath(pj.module))))

\* a variant that sets require whatever the module type
requirePathFor_always(mainPath, moduleType) == mainPath

\* lines 43-46: require is set for a main that is CommonJS or unknown
requirePathFor(mainPath, moduleType) ==
    IF mainPath # <<>> /\ moduleType \in {"cjs", "unknown"} THEN mainPath ELSE <<>>

parsedBrowser(pj) ==
    IF Falsy(pj.browser) THEN [rootBrowser |-> None, browserMappings |-> <<>>]
    ELSE parseBrowserField(pj.browser, pj.main, pj.module)

baselineFrom(files, pj, moduleType, parsed) ==
    MapSet(browserEntries(files, parsed.browserMappings, <<>>), S(DOT),
           rootEntry(orderedExport(rootSource(files, pj), fieldPath(typesField(pj)),
                                   fieldPath(pj.module),
                                   requirePathFor(fieldPath(pj.main), moduleType),
                                   parsed.rootBrowser, fieldPath(pj.main))))

generateBaselineExports(files, pj, sniff) ==
    baselineFrom(files, pj, detectModuleType(files, pj, sniff, fieldPath(pj.main)),
                 parsedBrowser(pj))

----------------------------------------------------------------------------
(* core/exports/generateExportsMap.ts *)

\* JavaScript truthiness of exportsMap[k]
Truthy(map, k) ==
    /\ MapHas(map, k)
    /\ MapGet(map, k) \notin {Null, False, Str(<<>>)}

\* the value of exportEntry after line 111: None unless the expansion produced an entry
tryPattern(files, importPath, pattern) ==
    IF pattern.hasMultipleBuilds
    THEN expandUsageWithPattern(files, importPath, pattern)
    ELSE None

Skipped == [kind |-> "skipped"]

RECURSIVE usageLoop(_, _, _, _, _)

\* lines 106-120: the entry stored for an import path that is not skipped
entryFor(files, importPath, exportEntry) ==
    OrElse(exportEntry, generateExportEntry(files, importPath))

\* lines 118-120: if (exportEntry) exportsMap[importPath] = exportEntry
storeEntry(map, importPath, exportEntry) ==
    IF exportEntry = None THEN map ELSE MapSet(map, importPath, exportEntry)

\* break in place of continue: the loop ends with the first entry it stores
usageStep_break(files, paths, pattern, map, trace, exportEntry) ==
    [map |-> storeEntry(map, paths[1], entryFor(files, paths[1], exportEntry)),
     trace |-> Append(trace, exportEntry)]

\* one iteration of the loop for an import path that is not skipped, exportEntry
\* being the value line 110 left
usageStep(files, paths, pattern, map, trace, exportEntry) ==
    usageLoop(files, Tail(paths), pattern,
              storeEntry(map, paths[1], entryFor(files, paths[1], exportEntry)),
              Append(trace, exportEntry))

\* lines 97-121; trace keeps, per import path, what line 110 produced
usageLoop(files, paths, pattern, map, trace) ==
    IF Len(paths) = 0 THEN [map |-> map, trace |-> trace]
    ELSE IF (paths[1] = S(DOT) /\ Truthy(map, S(DOT))) \/ Truthy(map, paths[1])
    THEN usageLoop(files, Tail(paths), pattern, map, Append(trace, Skipped))
    ELSE usageStep(files, paths, pattern, map, trace, tryPattern(files, paths[1], pattern))

\* lines 82-88: the map the usage loop starts from
startingMap(files, pj, sniff) ==
    IF pj.exports = None THEN generateBaselineExports(files, pj, sniff)
    ELSE pj.exports.v

generateExportsMapTraced(files, pj, sniff, importPaths) ==
    usageLoop(files, importPaths, detectBuildPattern(pj.main, pj.module),
              startingMap(files, pj, sniff), <<>>)

generateExportsMap(files, pj, sniff, importPaths) ==
    generateExportsMapTraced(files, pj, sniff, importPaths).map

----------------------------------------------------------------------------
(* commands/fix.ts: updatePackageJson *)

\* JSON.stringify(existingExports) !== JSON.stringify(exportsMap); both sides are
\* trees of strings and null with keys that are not integer-like, so the
\* serialisation is one-to-one on them and key order is significant
exportsChanged_always(existingExports, map) == TRUE

exportsChanged(existingExports, map) == existingExports # Obj(map)

\* a variant that writes a package.json holding the changed exports but not main
updatePackageJson_dropMain(pj, map) ==
    IF exportsChanged(pj.exports, map)
    THEN [pj EXCEPT !.exports = Obj(map), !.main = None]
    ELSE pj

updatePackageJson(pj, map) ==
    IF exportsChanged(pj.exports, map)
    THEN [pj EXCEPT !.exports = Obj(map)]
    ELSE pj

----------------------------------------------------------------------------
(* Input domains *)

RECURSIVE SeqsUpTo(_, _)
SeqsUpTo(set, n) ==
    IF n = 0 THEN {<<>>}
    ELSE LET shorter == SeqsUpTo(set, n - 1)
         IN shorter \cup {Append(q, x) : q \in shorter, x \in set}

Package(main, module, browser, exports) ==
    [main |-> main, module |-> module, types |-> None, source |-> None,
     typings |-> None, browser |-> browser, type |-> "", exports |-> exports]

NoResult == [rootBrowser |-> None, browserMappings |-> <<>>]
NoSniff == [esm |-> FALSE, cjs |-> FALSE, readable |-> TRUE]

LibUtilsJs == <<"lib", SEP, "utils", DOT, "js">>
LibUtilsTs == <<"lib", SEP, "utils", DOT, "ts">>
LibUtilsDts == <<"lib", SEP, "utils", DOT, "d", DOT, "ts">>
SrcUtilsTs == <<"src", SEP, "utils", DOT, "ts">>
LibCjsUtilsJs == <<"lib", SEP, "cjs", SEP, "utils", DOT, "js">>
LibEsmUtilsJs == <<"lib", SEP, "esm", SEP, "utils", DOT, "js">>

UseRoot == <<DOT>>
UseUtils == <<DOT, SEP, "utils">>
UseLibUtils == <<DOT, SEP, "lib", SEP, "utils">>
UseLibUtilsJs == <<DOT, SEP, "lib", SEP, "utils", DOT, "js">>

MainLib == Str(<<DOT, SEP, "lib", SEP, "index", DOT, "js">>)
MainCjsDir == Str(<<DOT, SEP, "lib", SEP, "cjs", SEP, "index", DOT, "js">>)
ModuleEsmDir == Str(<<DOT, SEP, "lib", SEP, "esm", SEP, "index", DOT, "js">>)

BrowserBlocked == Obj(<< <<<<DOT, SEP, "lib", SEP, "node", DOT, "js">>, False>> >>)

\* hand-written exports fields: a root entry plus a subpath, and a subpath blocked with null
ExportsAuthored ==
    Obj(<< <<S(DOT), Obj(<< <<"require", MainCjsDir.v>>, <<"import", ModuleEsmDir.v>> >>)>>,
           <<UseUtils, Str(<<DOT, SEP, "lib", SEP, "existing", DOT, "js">>)>> >>)
ExportsBlocked ==
    Obj(<< <<UseLibUtils, Null>> >>)

FileUniverse == {LibUtilsJs, LibUtilsTs, LibUtilsDts, SrcUtilsTs, LibEsmUtilsJs}

FileSystems == {f \in SUBSET FileUniverse : Cardinality(f) <= MaxFiles}

ImportPaths == {UseRoot, UseUtils, UseLibUtils, UseLibUtilsJs}

Packages ==
    {Package(m[1], m[2], b, None) :
        m \in {<<None, None>>, <<MainLib, None>>, <<MainCjsDir, ModuleEsmDir>>},
        b \in {None, BrowserBlocked}}
    \cup
    {Package(MainLib, None, None, e) : e \in {ExportsAuthored, ExportsBlocked}}

----------------------------------------------------------------------------
(* commands/fix.ts: fixExports on a tree holding one package *)

\* an option that is not given is the empty string
NoOptions == [dryRun |-> FALSE, packageName |-> "", cwd |-> "", mainRepo |-> "",
              usageFileReadable |-> TRUE]

NoBatchResult == [successCount |-> 0, failureCount |-> 0]

\* before batchProcessFiles is called
IdleBatch ==
    /\ inputs = <<>>
    /\ batchConfig = [concurrency |-> 1, continueOnError |-> TRUE]
    /\ batch = "idle"
    /\ chunks = <<>>
    /\ chunkIndex = 0
    /\ ops = <<>>
    /\ batchResults = <<>>
    /\ errors = <<>>
    /\ returned = NoBatchResult

\* new Map(), before any lookup
IdleCache ==
    /\ cache = <<>>
    /\ answers = <<>>
    /\ probes = 0

\* before any file utility is called
IdleUtil ==
    /\ foundSource = <<>>
    /\ IdleBatch
    /\ IdleCache

IdleTree ==
    /\ detected = "unknown"
    /\ tree = <<>>
    /\ usageData = <<>>
    /\ options = NoOptions
    /\ written = {}
    /\ printed = {}
    /\ generated = <<>>
    /\ repos = <<>>

Idle ==
    /\ dryRun = FALSE
    /\ startMap = <<>>
    /\ exportsMap = <<>>
    /\ expanded = <<>>
    /\ buildPattern = NoPattern
    /\ wrote = FALSE
    /\ runs = 0
    /\ fixes = 0
    /\ browserResult = NoResult
    /\ path = <<>>
    /\ calls = 0
    /\ IdleTree
    /\ IdleUtil

Init ==
    /\ fs \in FileSystems
    /\ contents = NoSniff
    /\ packageJson \in Packages
    /\ usage \in SeqsUpTo(ImportPaths, MaxUsage)
    /\ Idle

\* lines 566-572: no usage data for the package, nothing is generated
FixExportsSkip(d) ==
    /\ runs < MaxRuns
    /\ Len(usage) = 0
    /\ dryRun' = d
    /\ wrote' = FALSE
    /\ runs' = runs + 1
    /\ fixes' = IF d THEN fixes ELSE fixes + 1
    /\ UNCHANGED <<fs, contents, packageJson, usage, startMap, exportsMap, expanded,
                   buildPattern, browserResult, path, calls,
                   treeVars, utilVars>>

\* lines 574-590: generate, then print (dry run) or update package.json
FixExportsGenerate(d) ==
    /\ runs < MaxRuns
    /\ Len(usage) > 0
    /\ \E r \in {generateExportsMapTraced(fs, packageJson, contents, usage)} :
          /\ startMap' = startingMap(fs, packageJson, contents)
          /\ buildPattern' = detectBuildPattern(packageJson.main, packageJson.module)
          /\ exportsMap' = r.map
          /\ expanded' = r.trace
          /\ dryRun' = d
          /\ packageJson' = IF d THEN packageJson ELSE updatePackageJson(packageJson, r.map)
          /\ wrote' = (~d /\ exportsChanged(packageJson.exports, r.map))
    /\ runs' = runs + 1
    /\ fixes' = IF d THEN fixes ELSE fixes + 1
    /\ UNCHANGED <<fs, contents, usage, browserResult, path, calls,
                   treeVars, utilVars>>

Next == \E d \in BOOLEAN : FixExportsSkip(d) \/ FixExportsGenerate(d)

Spec == Init /\ [][Next]_vars

----------------------------------------------------------------------------
(* Dual-build packages: generateExportsMap with pattern expansion, dry run *)

MainCjsExt == Str(<<DOT, SEP, "lib", SEP, "index", DOT, "cjs">>)
ModuleMjsExt == Str(<<DOT, SEP, "lib", SEP, "index", DOT, "mjs">>)
MainCjsPrefix == Str(<<DOT, SEP, "lib", SEP, "cjs", DOT, "index", DOT, "js">>)
ModuleEsmPrefix == Str(<<DOT, SEP, "lib", SEP, "esm", DOT, "index", DOT, "js">>)

PatternPackages ==
    { Package(MainCjsDir, ModuleEsmDir, None, None),
      Package(ModuleEsmDir, MainCjsDir, None, None),
      Package(MainCjsExt, ModuleMjsExt, None, None),
      Package(MainCjsPrefix, ModuleEsmPrefix, None, None) }

PatternFileUniverse ==
    { LibUtilsJs, LibCjsUtilsJs, LibEsmUtilsJs,
      <<"lib", SEP, "utils", DOT, "cjs">>,
      <<"lib", SEP, "utils", DOT, "mjs">>,
      <<"lib", SEP, "cjs", DOT, "utils", DOT, "js">>,
      <<"lib", SEP, "esm", DOT, "utils", DOT, "js">>,
      <<"lib", SEP, "esm", SEP, "utils", SEP, "index", DOT, "js">> }

InitPattern ==
    /\ fs \in {f \in SUBSET PatternFileUniverse :
                 Cardinality(f) <= MaxPatternFiles}
    /\ contents = NoSniff
    /\ packageJson \in PatternPackages
    /\ usage \in {<<UseLibUtilsJs>>, <<UseLibUtils>>}
    /\ Idle

NextPattern == FixExportsGenerate(TRUE)

SpecPattern == InitPattern /\ [][NextPattern]_vars

----------------------------------------------------------------------------
(* detectBuildPattern on arbitrary main / module fields *)

FieldValues ==
    {None, Str(<<>>)} \cup
    { Str(pre \o <<"lib", SEP>> \o dir \o name \o ext) :
        pre \in {<<>>, <<DOT, SEP>>},
        dir \in {<<>>, <<"cjs", SEP>>, <<"esm", SEP>>, <<"ESM", SEP>>},
        name \in {<<"index">>, <<"cjs", DOT, "index">>, <<"esm", "-", "index">>,
                  <<"esm", DOT, "index">>},
        ext \in {<<DOT, "js">>, <<DOT, "cjs">>, <<DOT, "mjs">>} }

InitDetect ==
    /\ fs = {}
    /\ contents = NoSniff
    /\ \E m \in FieldValues, n \in FieldValues : packageJson = Package(m, n, None, None)
    /\ usage = <<>>
    /\ Idle

\* generateExportsMap lines 91-94, alone
DetectBuildPattern ==
    /\ calls = 0
    /\ buildPattern' = detectBuildPattern(packageJson.main, packageJson.module)
    /\ calls' = 1
    /\ UNCHANGED <<fs, contents, packageJson, usage, dryRun, startMap, exportsMap, expanded,
                   wrote, runs, fixes, browserResult, path,
                   treeVars, utilVars>>

NextDetect == DetectBuildPattern

SpecDetect == InitDetect /\ [][NextDetect]_vars

----------------------------------------------------------------------------
(* parseBrowserField on object-valued browser fields *)

LibIndexJs == <<"lib", SEP, "index", DOT, "js">>
LibIndexEsmJs == <<"lib", SEP, "index", DOT, "esm", DOT, "js">>
BrowserJs == <<DOT, SEP, "lib", SEP, "browser", DOT, "js">>
BrowserEsmJs == <<DOT, SEP, "lib", SEP, "browser", DOT, "esm", DOT, "js">>

BrowserKeys == {<<DOT, SEP>> \o LibIndexJs, LibIndexJs, <<DOT, SEP>> \o LibIndexEsmJs,
                UseLibUtilsJs}
BrowserValues == {False, Str(BrowserJs), Str(BrowserEsmJs)}

\* objects have distinct keys
BrowserObjects ==
    {Obj(o) : o \in {q \in SeqsUpTo(BrowserKeys \X BrowserValues, MaxBrowserKeys) :
                        \A i, j \in 1..Len(q) : q[i][1] = q[j][1] => i = j}}

InitBrowser ==
    /\ fs = {}
    /\ contents = NoSniff
    /\ \E b \in BrowserObjects,
          m \in {None, Str(LibIndexJs), Str(<<DOT, SEP>> \o LibIndexJs)},
          n \in {None, Str(<<DOT, SEP>> \o LibIndexEsmJs)} :
             packageJson = Package(m, n, b, None)
    /\ usage = <<>>
    /\ Idle

\* generateBaselineExports line 74, alone
ParseBrowserField ==
    /\ calls = 0
    /\ browserResult' = parseBrowserField(packageJson.browser, packageJson.main,
                                          packageJson.module)
    /\ calls' = 1
    /\ UNCHANGED <<fs, contents, packageJson, usage, dryRun, startMap, exportsMap, expanded,
                   buildPattern, wrote, runs, fixes, path,
                   treeVars, utilVars>>

NextBrowser == ParseBrowserField

SpecBrowser == InitBrowser /\ [][NextBrowser]_vars

----------------------------------------------------------------------------
(* normalizeRelativePath applied repeatedly to one path, character by character *)

PathChars == {DOT, SEP, "a"}

InitNormalize ==
    /\ fs = {}
    /\ contents = NoSniff
    /\ packageJson = Package(None, None, None, None)
    /\ usage = <<>>
    /\ dryRun = FALSE
    /\ startMap = <<>>
    /\ exportsMap = <<>>
    /\ expanded = <<>>
    /\ buildPattern = NoPattern
    /\ wrote = FALSE
    /\ runs = 0
    /\ fixes = 0
    /\ browserResult = NoResult
    /\ path \in SeqsUpTo(PathChars, MaxLen)
    /\ calls = 0
    /\ IdleTree
    /\ IdleUtil

Normalize ==
    /\ calls < MaxCalls
    /\ path' = normalizeRelativePath(path)
    /\ calls' = calls + 1
    /\ UNCHANGED <<fs, contents, packageJson, usage, dryRun, startMap, exportsMap, expanded,
                   buildPattern, wrote, runs, fixes, browserResult,
                   treeVars, utilVars>>

NextNormalize == Normalize

SpecNormalize == InitNormalize /\ [][NextNormalize]_vars

----------------------------------------------------------------------------
(* generateBaselineExports on packages without an exports field *)

LibIndexMjs == <<"lib", SEP, "index", DOT, "mjs">>
LibIndexCjs == <<"lib", SEP, "index", DOT, "cjs">>
SrcIndexTs == <<"src", SEP, "index", DOT, "ts">>
IndexDts == <<DOT, SEP, "lib", SEP, "index", DOT, "d", DOT, "ts">>

PackageWith(main, module, browser, types, typings, source, type) ==
    [main |-> main, module |-> module, types |-> types, source |-> source,
     typings |-> typings, browser |-> browser, type |-> type, exports |-> None]

Sniffs == [esm : BOOLEAN, cjs : BOOLEAN, readable : BOOLEAN]

BaselineBrowserKeys == BrowserKeys \cup {LibUtilsJs}

\* objects have distinct keys; two keys may still name the same path
BaselineBrowserObjects ==
    {Obj(o) : o \in {q \in SeqsUpTo(BaselineBrowserKeys \X BrowserValues, MaxBrowserKeys) :
                        \A i, j \in 1..Len(q) : q[i][1] = q[j][1] => i = j}}

\* packages that differ in their browser object
BrowserPackages ==
    {PackageWith(m, n, b, None, None, None, "") :
        m \in {None, Str(LibIndexJs), Str(<<DOT, SEP>> \o LibIndexJs)},
        n \in {None, Str(<<DOT, SEP>> \o LibIndexEsmJs)},
        b \in BaselineBrowserObjects}

\* packages that differ in the fields of the root entry
FieldPackages ==
    {PackageWith(m, n, b, t[1], t[2], s, ty) :
        m \in {None, Str(<<>>), Str(LibIndexJs), Str(<<DOT, SEP>> \o LibIndexMjs),
               Str(<<DOT, SEP>> \o LibIndexCjs)},
        n \in {None, Str(<<>>), Str(<<DOT, SEP>> \o LibIndexEsmJs)},
        b \in {None, Str(BrowserJs)},
        t \in {<<None, None>>, <<Str(IndexDts), None>>, <<None, Str(IndexDts)>>},
        s \in {None, Str(SrcIndexTs)},
        ty \in {"", "module", "commonjs"}}

InitBaseline ==
    /\ \/ /\ packageJson \in BrowserPackages
          /\ fs \in {{}, {SrcUtilsTs}}
          /\ contents = NoSniff
       \/ /\ packageJson \in FieldPackages
          /\ fs \in {{}, {LibIndexJs}, {LibIndexJs, SrcIndexTs}}
          /\ contents \in Sniffs
    /\ usage = <<>>
    /\ Idle

\* generateExportsMap line 87, alone
GenerateBaselineExports ==
    /\ calls = 0
    /\ startMap' = generateBaselineExports(fs, packageJson, contents)
    /\ browserResult' = parsedBrowser(packageJson)
    /\ detected' = IF Falsy(packageJson.main) THEN detected
                   ELSE detectModuleType(fs, packageJson, contents, fieldPath(packageJson.main))
    /\ calls' = 1
    /\ UNCHANGED <<fs, contents, packageJson, usage, dryRun, exportsMap, expanded,
                   buildPattern, wrote, runs, fixes, path,
                   tree, usageData, options, written, printed, generated, repos, utilVars>>

NextBaseline == GenerateBaselineExports

SpecBaseline == InitBaseline /\ [][NextBaseline]_vars

----------------------------------------------------------------------------
(* detectModuleType on arbitrary files *)

\* files with and without "./", with the decisive extensions, without extension,
\* a dot file and a directory
ModulePaths ==
    { <<DOT, SEP>> \o LibIndexJs, LibIndexJs, <<DOT, SEP>> \o LibIndexMjs,
      <<DOT, SEP>> \o LibIndexCjs, <<DOT, SEP, "lib", SEP, "index">>,
      <<DOT, SEP, DOT, "mjs">>, <<DOT, SEP, "lib">> }

PackageTypes == {"", "module", "commonjs", "other"}

ModuleFileSystems ==
    { {}, {LibIndexJs}, {LibIndexJs, LibIndexMjs, LibIndexCjs, <<"lib", SEP, "index">>,
                         <<DOT, "mjs">>} }

InitModuleType ==
    /\ fs \in ModuleFileSystems
    /\ contents \in Sniffs
    /\ \E ty \in PackageTypes :
          packageJson = PackageWith(None, None, None, None, None, None, ty)
    /\ usage = <<>>
    /\ dryRun = FALSE
    /\ startMap = <<>>
    /\ exportsMap = <<>>
    /\ expanded = <<>>
    /\ buildPattern = NoPattern
    /\ wrote = FALSE
    /\ runs = 0
    /\ fixes = 0
    /\ browserResult = NoResult
    /\ path \in ModulePaths
    /\ calls = 0
    /\ IdleTree
    /\ IdleUtil

DetectModuleType ==
    /\ calls = 0
    /\ detected' = detectModuleType(fs, packageJson, contents, path)
    /\ calls' = 1
    /\ UNCHANGED <<fs, contents, packageJson, usage, dryRun, startMap, exportsMap, expanded,
                   buildPattern, wrote, runs, fixes, browserResult, path,
                   tree, usageData, options, written, printed, generated, repos, utilVars>>

NextModuleType == DetectModuleType

SpecModuleType == InitModuleType /\ [][NextModuleType]_vars

----------------------------------------------------------------------------
(* commands/fix.ts: fixExports on a tree of packages.  Every package        *)
(* directory holds the files fs; tree lists the package.json files on disk, *)
(* those outside the working directory (or below node_modules, dist, build) *)
(* included.                                                                *)

\* findPackages lines 16-43: a package.json below rootPath that has a name
discovered(pkg) == pkg.inCwd /\ pkg.name # ""

\* fixExports lines 555-557
filtered(pkg, opts) == opts.packageName = "" \/ pkg.name = opts.packageName

\* fixExports lines 567-568: usageData[pkg.name] exists and lists an import path
hasUsage(usageMap, pkg) ==
    /\ MapHas(usageMap, pkg.name)
    /\ Len(MapGet(usageMap, pkg.name).importPaths) > 0

NoRun(t) ==
    [tree |-> t, written |-> {}, printed |-> {}, generated |-> [i \in 1..Len(t) |-> None]]

\* a variant that updates package.json in a dry run as well
fixStep_dryRunWrites(st, i, map, opts) ==
    [st EXCEPT !.tree[i].pj = updatePackageJson(@, map),
               !.written = IF exportsChanged(st.tree[i].pj.exports, map)
                           THEN @ \cup {i} ELSE @,
               !.printed = @ \cup {i},
               !.generated[i] = Obj(map)]

\* lines 574-590 for the package at index i, map being what generateExportsMap returned
fixStep(st, i, map, opts) ==
    IF opts.dryRun
    THEN [st EXCEPT !.printed = @ \cup {i}, !.generated[i] = Obj(map)]
    ELSE [st EXCEPT !.tree[i].pj = updatePackageJson(@, map),
                    !.written = IF exportsChanged(st.tree[i].pj.exports, map)
                                THEN @ \cup {i} ELSE @,
                    !.printed = @ \cup {i},
                    !.generated[i] = Obj(map)]

RECURSIVE fixLoop(_, _, _, _, _, _)
\* the for loop of lines 565-591 from the package at index i on
fixLoop(i, st, usageMap, files, sniff, opts) ==
    IF i > Len(st.tree) THEN st
    ELSE IF ~(discovered(st.tree[i]) /\ filtered(st.tree[i], opts)
              /\ hasUsage(usageMap, st.tree[i]))
    THEN fixLoop(i + 1, st, usageMap, files, sniff, opts)
    ELSE fixLoop(i + 1,
                 fixStep(st, i,
                         generateExportsMap(files, st.tree[i].pj, sniff,
                                            MapGet(usageMap, st.tree[i].name).importPaths),
                         opts),
                 usageMap, files, sniff, opts)

\* lines 559-561 throw when the named package is not found: nothing is processed
fixExports(t, usageMap, files, sniff, opts) ==
    IF /\ opts.packageName # ""
       /\ \A i \in 1..Len(t) : ~(discovered(t[i]) /\ filtered(t[i], opts))
    THEN NoRun(t)
    ELSE fixLoop(1, NoRun(t), usageMap, files, sniff, opts)

PackageEntry(name, pj, inCwd) == [name |-> name, pj |-> pj, inCwd |-> inCwd]

PackageUsage(name, importPaths, versionRequirement) ==
    [package |-> name, importPaths |-> importPaths, versionRequirement |-> versionRequirement]

PackageEntries ==
    { PackageEntry("a", Package(MainLib, None, None, None), TRUE),
      PackageEntry("a", Package(MainLib, None, None, ExportsAuthored), TRUE),
      PackageEntry("b", Package(MainLib, None, None, None), TRUE),
      PackageEntry("b", Package(MainLib, None, None, None), FALSE),
      PackageEntry("", Package(MainLib, None, None, None), TRUE) }

\* usage files: a record per package, with no, only the root, or a deep import path
UsageFiles ==
    { ua \o ub :
        ua \in {<<>>} \cup {<< <<"a", PackageUsage("a", ip, "")>> >> :
                                ip \in {<<>>, <<UseRoot>>, <<UseUtils>>}},
        ub \in {<<>>, << <<"b", PackageUsage("b", <<UseUtils>>, "")>> >>} }

FixOptions ==
    {[NoOptions EXCEPT !.dryRun = d, !.packageName = n] :
        d \in BOOLEAN, n \in {"", "a", "c"}}

InitTree ==
    /\ fs = {LibUtilsJs}
    /\ contents = NoSniff
    /\ packageJson = Package(None, None, None, None)
    /\ usage = <<>>
    /\ dryRun = FALSE
    /\ startMap = <<>>
    /\ exportsMap = <<>>
    /\ expanded = <<>>
    /\ buildPattern = NoPattern
    /\ wrote = FALSE
    /\ runs = 0
    /\ fixes = 0
    /\ browserResult = NoResult
    /\ path = <<>>
    /\ calls = 0
    /\ detected = "unknown"
    /\ tree \in SeqsUpTo(PackageEntries, MaxPackages)
    /\ usageData \in UsageFiles
    /\ options = NoOptions
    /\ written = {}
    /\ printed = {}
    /\ generated = [i \in 1..Len(tree) |-> None]
    /\ repos = <<>>
    /\ IdleUtil

FixExports(opts) ==
    /\ runs < MaxTreeRuns
    /\ options' = opts
    /\ \E r \in {fixExports(tree, usageData, fs, contents, opts)} :
          /\ tree' = r.tree
          /\ written' = r.written
          /\ printed' = r.printed
          /\ generated' = r.generated
    /\ runs' = runs + 1
    /\ UNCHANGED <<fs, contents, packageJson, usage, dryRun, startMap, exportsMap, expanded,
                   buildPattern, wrote, fixes, browserResult, path, calls, detected,
                   usageData, repos, utilVars>>

NextTree == \E opts \in FixOptions : FixExports(opts)

SpecTree == InitTree /\ [][NextTree]_vars

----------------------------------------------------------------------------
(* core/analysis/analyzeFileImports.ts and commands/evaluate.ts             *)
(* A source text is modelled by the sequence of module specifiers that      *)
(* IMPORT_REGEX captures in it; "@" is a lexeme of its own.                 *)

\* lines 36-38: @scope/name for a scoped package, else the first segment
packageNameOf(importPath) ==
    IF StartsWith(importPath, S("@"))
    THEN JoinWith(Take(Split(importPath, SEP), IF Len(Split(importPath, SEP)) < 2
                                               THEN Len(Split(importPath, SEP)) ELSE 2), SEP)
    ELSE Split(importPath, SEP)[1]

\* lines 46-47
relativeImportPath(importPath, packageName) ==
    IF importPath = packageName THEN S(DOT)
    ELSE <<DOT, SEP>> \o Drop(importPath, Len(packageName) + 1)

ImportMatch(packageName, importPath) ==
    [packageName |-> packageName, importPath |-> importPath]

\* lines 41-43: with an empty targetPackages every package is tracked
tracked(packageName, targetPackages) ==
    targetPackages = {} \/ packageName \in targetPackages

RECURSIVE analyzeFileImports(_, _)
\* lines 27-53: the loop over the matches
analyzeFileImports(specifiers, targetPackages) ==
    IF Len(specifiers) = 0 THEN <<>>
    ELSE IF \/ StartsWith(specifiers[1], S(DOT))
            \/ ~tracked(packageNameOf(specifiers[1]), targetPackages)
    THEN analyzeFileImports(Tail(specifiers), targetPackages)
    ELSE <<ImportMatch(packageNameOf(specifiers[1]),
                       relativeImportPath(specifiers[1], packageNameOf(specifiers[1])))>>
         \o analyzeFileImports(Tail(specifiers), targetPackages)

\* lines 68-73: undefined is the empty string
extractVersionRequirement(packageName, dependencies) ==
    IF MapHas(dependencies, packageName) THEN MapGet(dependencies, packageName) ELSE ""

\* the UTF-16 code units of a lexeme of an import path
CodeUnits(w) ==
    CASE w = DOT -> <<46>>
      [] w = SEP -> <<47>>
      [] w = "Button" -> <<66, 117, 116, 116, 111, 110>>
      [] w = "button" -> <<98, 117, 116, 116, 111, 110>>
      [] w = "old" -> <<111, 108, 100>>
      [] w = "utils" -> <<117, 116, 105, 108, 115>>
      [] w = "x" -> <<120>>

RECURSIVE Units(_)
Units(p) == IF Len(p) = 0 THEN <<>> ELSE CodeUnits(p[1]) \o Units(Tail(p))

\* a < b in the order of Array.prototype.sort without a comparator, on code units
UnitsLess(a, b) ==
    \E i \in 1..Len(b) :
        /\ Len(a) >= i - 1
        /\ Take(a, i - 1) = Take(b, i - 1)
        /\ (Len(a) = i - 1 \/ a[i] < b[i])

RECURSIVE insertSorted(_, _)
insertSorted(sorted, p) ==
    IF Len(sorted) = 0 THEN <<p>>
    ELSE IF UnitsLess(Units(p), Units(sorted[1])) THEN <<p>> \o sorted
    ELSE <<sorted[1]>> \o insertSorted(Tail(sorted), p)

RECURSIVE sortPaths(_)
\* importPaths.sort()
sortPaths(paths) ==
    IF Len(paths) = 0 THEN <<>>
    ELSE insertSorted(sortPaths(Take(paths, Len(paths) - 1)), paths[Len(paths)])

\* evaluateUsage lines 101-104
withImportPath(packageUsage, importPath) ==
    IF \E i \in 1..Len(packageUsage.importPaths) : packageUsage.importPaths[i] = importPath
    THEN packageUsage
    ELSE [packageUsage EXCEPT !.importPaths = Append(@, importPath)]

\* a variant that takes the version requirement of the scanned repository when it has one
withVersionRequirement_latest(packageUsage, versionReq) ==
    IF versionReq # ""
    THEN [packageUsage EXCEPT !.versionRequirement = versionReq]
    ELSE packageUsage

\* evaluateUsage lines 106-112
withVersionRequirement(packageUsage, versionReq) ==
    IF packageUsage.versionRequirement = "" /\ versionReq # ""
    THEN [packageUsage EXCEPT !.versionRequirement = versionReq]
    ELSE packageUsage

\* evaluateUsage lines 91-99: the record of the package, created when missing
usageOf(data, packageName) ==
    IF MapHas(data, packageName) THEN MapGet(data, packageName)
    ELSE PackageUsage(packageName, <<>>, "")

RECURSIVE mergeImports(_, _, _)
\* evaluateUsage lines 90-113 over the imports of all source files
mergeImports(imports, data, dependencies) ==
    IF Len(imports) = 0 THEN data
    ELSE mergeImports(Tail(imports),
            MapSet(data, imports[1].packageName,
                   withVersionRequirement(
                       withImportPath(usageOf(data, imports[1].packageName),
                                      imports[1].importPath),
                       extractVersionRequirement(imports[1].packageName, dependencies))),
            dependencies)

\* evaluateUsage lines 116-119
sortAll(data) ==
    [k \in 1..Len(data) |->
        <<data[k][1], [data[k][2] EXCEPT !.importPaths = sortPaths(@)]>>]

\* evaluateUsage lines 30-45
targetPackagesOf(rs, opts) ==
    IF opts.mainRepo # "" THEN rs[opts.mainRepo].packages ELSE rs[opts.cwd].packages

\* evaluateUsage lines 47-57: an unreadable or malformed usage file starts fresh
loadedUsage(data, opts) == IF opts.usageFileReadable THEN data ELSE <<>>

\* the content of the usage file after evaluateUsage
evaluateUsage(data, rs, opts) ==
    sortAll(mergeImports(analyzeFileImports(rs[opts.cwd].sources, targetPackagesOf(rs, opts)),
                         loadedUsage(data, opts), rs[opts.cwd].dependencies))

MainUi == <<"@", "main", SEP, "ui">>
Core == <<"core">>
ConsumerLocal == <<"@", "consumer", SEP, "local">>
Lodash == <<"lodash">>

Specifiers ==
    { MainUi, MainUi \o <<SEP, "button">>, MainUi \o <<SEP, "Button">>,
      Core \o <<SEP, "utils">>, Lodash, ConsumerLocal \o <<SEP, "x">>,
      <<DOT, SEP, "x">> }

Repository(packages, sources, dependencies) ==
    [packages |-> packages, sources |-> sources, dependencies |-> dependencies]

\* a usage file written by an earlier scan
ExistingUsage == << <<MainUi, PackageUsage(MainUi, << <<DOT, SEP, "old">> >>, "^1.0.0")>> >>

EvaluateOptions ==
    { [NoOptions EXCEPT !.cwd = "main"],
      [NoOptions EXCEPT !.cwd = "consumer"],
      [NoOptions EXCEPT !.cwd = "consumer", !.mainRepo = "main"],
      [NoOptions EXCEPT !.cwd = "consumer", !.mainRepo = "empty"],
      [NoOptions EXCEPT !.cwd = "consumer", !.mainRepo = "main", !.usageFileReadable = FALSE] }

InitEvaluate ==
    /\ fs = {}
    /\ contents = NoSniff
    /\ packageJson = Package(None, None, None, None)
    /\ usage = <<>>
    /\ dryRun = FALSE
    /\ startMap = <<>>
    /\ exportsMap = <<>>
    /\ expanded = <<>>
    /\ buildPattern = NoPattern
    /\ wrote = FALSE
    /\ runs = 0
    /\ fixes = 0
    /\ browserResult = NoResult
    /\ path = <<>>
    /\ calls = 0
    /\ detected = "unknown"
    /\ tree = <<>>
    /\ usageData \in {<<>>, ExistingUsage}
    /\ options = NoOptions
    /\ written = {}
    /\ printed = {}
    /\ generated = <<>>
    /\ \E src \in SeqsUpTo(Specifiers, MaxImports),
          deps \in {<<>>, << <<MainUi, "^1.1.0">> >>} :
          repos = [r \in {"main", "consumer", "empty"} |->
                     CASE r = "main" ->
                            Repository({MainUi, Core},
                                       <<MainUi \o <<SEP, "utils">>, Lodash, MainUi>>,
                                       << <<MainUi, "^2.0.0">> >>)
                       [] r = "consumer" -> Repository({ConsumerLocal}, src, deps)
                       [] r = "empty" -> Repository({}, <<>>, <<>>)]
    /\ IdleUtil

EvaluateUsage(opts) ==
    /\ runs < MaxScans
    /\ options' = opts
    /\ usageData' = evaluateUsage(usageData, repos, opts)
    /\ runs' = runs + 1
    /\ UNCHANGED <<fs, contents, packageJson, usage, dryRun, startMap, exportsMap, expanded,
                   buildPattern, wrote, fixes, browserResult, path, calls, detected,
                   tree, written, printed, generated, repos, utilVars>>

NextEvaluate == \E opts \in EvaluateOptions : EvaluateUsage(opts)

SpecEvaluate == InitEvaluate /\ [][NextEvaluate]_vars

----------------------------------------------------------------------------
(* generateExportEntry on package directories that hold directories, index *)
(* files, declaration files and files without a compiled extension         *)

LibUtilsJsx == <<"lib", SEP, "utils", DOT, "jsx">>
LibUtilsBare == <<"lib", SEP, "utils">>
LibUtilsIndexJs == <<"lib", SEP, "utils", SEP, "index", DOT, "js">>
LibUtilsIndexDts == <<"lib", SEP, "utils", SEP, "index", DOT, "d", DOT, "ts">>
DistUtilsIndexJs == <<"dist", SEP, "utils", SEP, "index", DOT, "js">>

EntryFileUniverse ==
    {LibUtilsJs, LibUtilsTs, LibUtilsJsx, LibUtilsDts, LibUtilsBare,
     LibUtilsIndexJs, LibUtilsIndexDts, DistUtilsIndexJs, SrcUtilsTs}

\* statSync(path.join(packageDir, p)).isDirectory()
isDirectory(files, p) == \E f \in files : StartsWith(f, PathJoin(p) \o S(SEP))

\* on disk a path names a file or a directory, never both
OnDisk(files) == \A f \in files : ~isDirectory(files, f)

EntryFileSystems ==
    {f \in SUBSET EntryFileUniverse : Cardinality(f) <= MaxEntryFiles /\ OnDisk(f)}

EntryImportPaths == {UseUtils, <<"utils">>}

InitEntry ==
    /\ fs \in EntryFileSystems
    /\ contents = NoSniff
    /\ packageJson = Package(None, None, None, None)
    /\ usage = <<>>
    /\ dryRun = FALSE
    /\ startMap = <<>>
    /\ exportsMap = <<>>
    /\ expanded = <<>>
    /\ buildPattern = NoPattern
    /\ wrote = FALSE
    /\ runs = 0
    /\ fixes = 0
    /\ browserResult = NoResult
    /\ path \in EntryImportPaths
    /\ calls = 0
    /\ IdleTree
    /\ IdleUtil

\* generateExportsMap lines 114-120: exportsMap[importPath] = generateExportEntry(...)
GenerateExportEntry ==
    /\ calls = 0
    /\ exportsMap' = MapSet(<<>>, path, generateExportEntry(fs, path))
    /\ calls' = 1
    /\ UNCHANGED <<fs, contents, packageJson, usage, dryRun, startMap, expanded,
                   buildPattern, wrote, runs, fixes, browserResult, path,
                   treeVars, utilVars>>

NextEntry == GenerateExportEntry

SpecEntry == InitEntry /\ [][NextEntry]_vars

----------------------------------------------------------------------------
(* findSourceFile on packages with src and source directories *)

SourceUtilsTs == <<"source", SEP, "utils", DOT, "ts">>
SourceUtilsTsx == <<"source", SEP, "utils", DOT, "tsx">>
SrcUtilsIndexTs == <<"src", SEP, "utils", SEP, "index", DOT, "ts">>
SourceUtilsJsTs == <<"source", SEP, "utils", DOT, "js", DOT, "ts">>
NestedSourceUtilsJsTs == <<"packages", SEP, "source", SEP, "utils", DOT, "js", DOT, "ts">>

SourceFileUniverse ==
    {SrcUtilsTs, SrcUtilsIndexTs, SourceUtilsTs, SourceUtilsTsx, SourceUtilsJsTs,
     NestedSourceUtilsJsTs}

SourceFileSystems ==
    {f \in SUBSET SourceFileUniverse : Cardinality(f) <= MaxSourceFiles /\ OnDisk(f)}

BuildUtilsJs == <<"build", SEP, "utils", DOT, "js">>

TargetPaths ==
    {<<DOT, SEP>> \o BuildUtilsJs, BuildUtilsJs, <<DOT, SEP>> \o LibUtilsJs,
     <<DOT, SEP, "packages", SEP>> \o BuildUtilsJs}

InitSource ==
    /\ fs \in SourceFileSystems
    /\ contents = NoSniff
    /\ packageJson = Package(None, None, None, None)
    /\ usage = <<>>
    /\ dryRun = FALSE
    /\ startMap = <<>>
    /\ exportsMap = <<>>
    /\ expanded = <<>>
    /\ buildPattern = NoPattern
    /\ wrote = FALSE
    /\ runs = 0
    /\ fixes = 0
    /\ browserResult = NoResult
    /\ path \in TargetPaths
    /\ calls = 0
    /\ IdleTree
    /\ IdleUtil

FindSourceFile ==
    /\ calls = 0
    /\ foundSource' = findSourceFile(fs, path)
    /\ calls' = 1
    /\ UNCHANGED <<fs, contents, packageJson, usage, dryRun, startMap, exportsMap, expanded,
                   buildPattern, wrote, runs, fixes, browserResult, path,
                   treeVars, batchVars, cacheVars>>

NextSource == FindSourceFile

SpecSource == InitSource /\ [][NextSource]_vars

----------------------------------------------------------------------------
(* generateExportsMap on usage records with several import paths, run twice *)
(* on the same package with the usage paths in another order                *)

UseBareUtils == <<"utils">>

UsageImportPaths == {UseRoot, UseUtils, UseLibUtils, UseBareUtils}

\* package.json fields written without the leading './'
PackageBare ==
    PackageWith(Str(LibIndexJs), None,
                Obj(<< <<LibUtilsJs, Str(<<"lib", SEP, "utils", DOT, "browser", DOT, "js">>)>>,
                       <<<<"lib", SEP, "node", DOT, "js">>, False>> >>),
                Str(<<"lib", SEP, "index", DOT, "d", DOT, "ts">>), None, Str(SrcIndexTs), "")
PackageBareDual ==
    PackageWith(Str(<<"lib", SEP, "cjs", SEP, "index", DOT, "js">>),
                Str(<<"lib", SEP, "esm", SEP, "index", DOT, "js">>),
                Str(<<"lib", SEP, "browser", DOT, "js">>),
                None, Str(<<"index", DOT, "d", DOT, "ts">>), None, "module")

UsagePackages ==
    { Package(None, None, None, None),
      Package(MainLib, None, BrowserBlocked, None),
      Package(MainCjsDir, ModuleEsmDir, None, None),
      Package(MainLib, None, None, ExportsAuthored),
      Package(MainLib, None, None, ExportsBlocked),
      PackageBare, PackageBareDual }

UsageFileSystems ==
    { {}, {LibUtilsTs, LibUtilsDts}, {SrcUtilsTs, SrcIndexTs},
      {LibEsmUtilsJs, LibCjsUtilsJs}, {LibEsmUtilsJs, LibUtilsDts, SrcUtilsTs} }

\* the elements of a list
Range(q) == {q[i] : i \in 1..Len(q)}

InitUsage ==
    /\ fs \in UsageFileSystems
    /\ contents = NoSniff
    /\ packageJson \in UsagePackages
    /\ usage \in SeqsUpTo(UsageImportPaths, MaxOrderPaths)
    /\ Idle

\* generateExportsMap(pkg, usage)
GenerateExportsMap ==
    /\ calls = 0
    /\ startMap' = startingMap(fs, packageJson, contents)
    /\ buildPattern' = detectBuildPattern(packageJson.main, packageJson.module)
    /\ exportsMap' = generateExportsMap(fs, packageJson, contents, usage)
    /\ calls' = 1
    /\ UNCHANGED <<fs, contents, packageJson, usage, dryRun, expanded,
                   wrote, runs, fixes, browserResult, path,
                   treeVars, utilVars>>

\* generateExportsMap(pkg, other) on the same package and files, other holding
\* the paths of usage in any order and with repetitions, or one of them alone
GenerateExportsMapReordered(other) ==
    /\ calls = 1
    /\ \/ Range(other) = Range(usage)
       \/ Len(other) = 1 /\ other[1] \in Range(usage)
    /\ usage' = other
    /\ exportsMap' = generateExportsMap(fs, packageJson, contents, other)
    /\ calls' = 2
    /\ UNCHANGED <<fs, contents, packageJson, dryRun, startMap, expanded,
                   buildPattern, wrote, runs, fixes, browserResult, path,
                   treeVars, utilVars>>

NextUsage ==
    \/ GenerateExportsMap
    \/ \E other \in SeqsUpTo(UsageImportPaths, MaxOrderPaths) :
           GenerateExportsMapReordered(other)

SpecUsage == InitUsage /\ [][NextUsage]_vars

----------------------------------------------------------------------------
(* utils/batchFileOperations.ts: batchProcessFiles                         *)
(* An input is modelled by what its operation does: it resolves in time    *)
(* ("ok"), throws or rejects ("throw"), resolves after more than           *)
(* operationTimeout ("slow"), or never settles ("never").  Time itself is  *)
(* not modelled: Date.now() differences only enter through "slow".         *)

Behaviours == {"ok", "throw", "slow", "never"}

\* no chunking: every input is started at once
chunkArray_whole(first, last, chunkSize) ==
    IF first > last THEN <<>> ELSE <<[i \in 1..(last - first + 1) |-> first + i - 1]>>

\* lines 482-488, on the indices first..last of the array
RECURSIVE chunkArray(_, _, _)
chunkArray(first, last, chunkSize) ==
    IF first > last THEN <<>>
    ELSE LET end == IF first + chunkSize - 1 < last THEN first + chunkSize - 1 ELSE last
         IN <<[i \in 1..(end - first + 1) |-> first + i - 1]>>
                \o chunkArray(first + chunkSize, last, chunkSize)

Unstarted == [state |-> "unstarted", success |-> FALSE, error |-> ""]
Pending == [state |-> "pending", success |-> FALSE, error |-> ""]

\* the error message of the catch block, lines 381-382
errorMsgOf(behaviour) ==
    IF behaviour = "slow" THEN "Operation timeout" ELSE "error.message"

\* the catch block rethrows whatever the configuration says
settled_rethrow(behaviour, continueOnError) ==
    IF behaviour = "ok" THEN [state |-> "fulfilled", success |-> TRUE, error |-> ""]
    ELSE [state |-> "rejected", success |-> FALSE, error |-> errorMsgOf(behaviour)]

\* lines 365-399: the promise of the callback once the operation has settled
settled(behaviour, continueOnError) ==
    IF behaviour = "ok" THEN [state |-> "fulfilled", success |-> TRUE, error |-> ""]
    ELSE IF continueOnError
    THEN [state |-> "fulfilled", success |-> FALSE, error |-> errorMsgOf(behaviour)]
    ELSE [state |-> "rejected", success |-> FALSE, error |-> errorMsgOf(behaviour)]

\* lines 403-415
batchResult(res) ==
    LET successCount == Cardinality({i \in 1..Len(res) : res[i].success})
    IN [successCount |-> successCount, failureCount |-> Len(res) - successCount]

\* the inputs of the chunk the loop is at
CurrentChunk == IF chunkIndex \in 1..Len(chunks) THEN Range(chunks[chunkIndex]) ELSE {}

InitBatch ==
    /\ fs = {}
    /\ contents = NoSniff
    /\ packageJson = Package(None, None, None, None)
    /\ usage = <<>>
    /\ dryRun = FALSE
    /\ startMap = <<>>
    /\ exportsMap = <<>>
    /\ expanded = <<>>
    /\ buildPattern = NoPattern
    /\ wrote = FALSE
    /\ runs = 0
    /\ fixes = 0
    /\ browserResult = NoResult
    /\ path = <<>>
    /\ calls = 0
    /\ IdleTree
    /\ foundSource = <<>>
    /\ inputs \in SeqsUpTo(Behaviours, MaxInputs)
    /\ batchConfig \in [concurrency : 1..MaxConcurrency, continueOnError : BOOLEAN]
    /\ batch = "idle"
    /\ chunks = <<>>
    /\ chunkIndex = 0
    /\ ops = [i \in 1..Len(inputs) |-> Unstarted]
    /\ batchResults = <<>>
    /\ errors = <<>>
    /\ returned = NoBatchResult
    /\ IdleCache

\* lines 353-362: the call, up to the head of the loop
BatchProcessFiles ==
    /\ batch = "idle"
    /\ chunks' = chunkArray(1, Len(inputs), batchConfig.concurrency)
    /\ chunkIndex' = 1
    /\ batch' = "running"
    /\ UNCHANGED <<inputs, batchConfig, ops, batchResults, errors, returned>>
    /\ UNCHANGED <<coreVars, treeVars, foundSource, cacheVars>>

\* lines 364-401: chunk.map starts the operation of every input of the chunk,
\* then the function waits on Promise.all
StartChunk ==
    /\ batch = "running"
    /\ chunkIndex <= Len(chunks)
    /\ ops' = [i \in 1..Len(inputs) |-> IF i \in CurrentChunk THEN Pending ELSE ops[i]]
    /\ batch' = "awaiting"
    /\ UNCHANGED <<inputs, batchConfig, chunks, chunkIndex, batchResults, errors, returned>>
    /\ UNCHANGED <<coreVars, treeVars, foundSource, cacheVars>>

\* lines 368-399: the operation of input i settles and its callback completes
Settle(i) ==
    /\ i \in 1..Len(inputs)
    /\ ops[i].state = "pending"
    /\ inputs[i] # "never"
    /\ ops' = [ops EXCEPT ![i] = settled(inputs[i], batchConfig.continueOnError)]
    /\ errors' = IF inputs[i] = "ok" THEN errors
                 ELSE Append(errors, <<i, errorMsgOf(inputs[i])>>)
    /\ UNCHANGED <<inputs, batchConfig, batch, chunks, chunkIndex, batchResults, returned>>
    /\ UNCHANGED <<coreVars, treeVars, foundSource, cacheVars>>

\* lines 400-401: Promise.all fulfils when every callback of the chunk has
ChunkDone ==
    /\ batch = "awaiting"
    /\ \A i \in CurrentChunk : ops[i].state = "fulfilled"
    /\ batchResults' = batchResults \o [k \in 1..Len(chunks[chunkIndex]) |->
                      [input |-> chunks[chunkIndex][k],
                       success |-> ops[chunks[chunkIndex][k]].success,
                       error |-> ops[chunks[chunkIndex][k]].error]]
    /\ chunkIndex' = chunkIndex + 1
    /\ batch' = "running"
    /\ UNCHANGED <<inputs, batchConfig, chunks, ops, errors, returned>>
    /\ UNCHANGED <<coreVars, treeVars, foundSource, cacheVars>>

\* line 400: Promise.all rejects as soon as one callback of the chunk has, and
\* the rejection leaves the async function
ChunkRejected ==
    /\ batch = "awaiting"
    /\ \E i \in CurrentChunk : ops[i].state = "rejected"
    /\ batch' = "rejected"
    /\ UNCHANGED <<inputs, batchConfig, chunks, chunkIndex, ops, batchResults, errors, returned>>
    /\ UNCHANGED <<coreVars, treeVars, foundSource, cacheVars>>

\* lines 403-415: after the last chunk
BatchReturn ==
    /\ batch = "running"
    /\ chunkIndex > Len(chunks)
    /\ returned' = batchResult(batchResults)
    /\ batch' = "resolved"
    /\ UNCHANGED <<inputs, batchConfig, chunks, chunkIndex, ops, batchResults, errors>>
    /\ UNCHANGED <<coreVars, treeVars, foundSource, cacheVars>>

NextBatch ==
    \/ BatchProcessFiles
    \/ StartChunk
    \/ \E i \in 1..Len(inputs) : Settle(i)
    \/ ChunkDone
    \/ ChunkRejected
    \/ BatchReturn

SpecBatch == InitBatch /\ [][NextBatch]_vars

\* the event loop runs every continuation that is ready, and an operation
\* that is not "never" settles
SpecBatchFair ==
    /\ SpecBatch
    /\ WF_vars(BatchProcessFiles)
    /\ WF_vars(StartChunk)
    /\ \A i \in 1..MaxInputs : WF_vars(Settle(i))
    /\ WF_vars(ChunkDone)
    /\ WF_vars(ChunkRejected)
    /\ WF_vars(BatchReturn)

----------------------------------------------------------------------------
(* utils/batchFileOperations.ts: createFileCache, getFileExistenceFromCache *)
(* The cache is the Map the caller passes to every lookup; between two      *)
(* lookups the files on disk may change.                                    *)

\* the files a lookup may name, in the order getAllFilesRecursive lists them
CacheFiles == <<LibUtilsJs, LibUtilsTs>>

\* the paths given to getFileExistenceFromCache
CachePaths == Range(CacheFiles) \cup {<<DOT, SEP>> \o f : f \in Range(CacheFiles)}

\* lines 424-445: every file found under the search directories, mapped to true
createFileCache(files) ==
    LET found == SelectSeq(CacheFiles, LAMBDA f : f \in files)
    IN [i \in 1..Len(found) |-> <<found[i], TRUE>>]

\* the cache is keyed by the path as given
getFileExistenceFromCache_raw(files, filePath, map) ==
    IF MapHas(map, filePath)
    THEN [exists |-> MapGet(map, filePath), map |-> map, probed |-> FALSE]
    ELSE [exists |-> existsSync(files, stripDotSlash(filePath)),
          map |-> MapSet(map, filePath, existsSync(files, stripDotSlash(filePath))),
          probed |-> TRUE]

\* lines 454-474: the value returned, the cache afterwards, and whether
\* fileExistsSync was called
getFileExistenceFromCache(files, filePath, map) ==
    IF MapHas(map, stripDotSlash(filePath))
    THEN [exists |-> MapGet(map, stripDotSlash(filePath)), map |-> map, probed |-> FALSE]
    ELSE [exists |-> existsSync(files, stripDotSlash(filePath)),
          map |-> MapSet(map, stripDotSlash(filePath),
                         existsSync(files, stripDotSlash(filePath))),
          probed |-> TRUE]

InitCache ==
    /\ fs \in SUBSET Range(CacheFiles)
    /\ contents = NoSniff
    /\ packageJson = Package(None, None, None, None)
    /\ usage = <<>>
    /\ dryRun = FALSE
    /\ startMap = <<>>
    /\ exportsMap = <<>>
    /\ expanded = <<>>
    /\ buildPattern = NoPattern
    /\ wrote = FALSE
    /\ runs = 0
    /\ fixes = 0
    /\ browserResult = NoResult
    /\ path = <<>>
    /\ calls = 0
    /\ IdleTree
    /\ foundSource = <<>>
    /\ IdleBatch
    /\ cache \in {<<>>, createFileCache(fs)}
    /\ answers = <<>>
    /\ probes = 0

\* one call of getFileExistenceFromCache on the cache
GetFileExistenceFromCache(filePath) ==
    /\ Len(answers) < MaxLookups
    /\ cache' = getFileExistenceFromCache(fs, filePath, cache).map
    /\ answers' = Append(answers,
                         [path |-> filePath,
                          exists |-> getFileExistenceFromCache(fs, filePath, cache).exists])
    /\ probes' = IF getFileExistenceFromCache(fs, filePath, cache).probed
                 THEN probes + 1 ELSE probes
    /\ UNCHANGED <<coreVars, treeVars, foundSource, batchVars>>

\* between two lookups a file is created or deleted
FileSystemChange(f) ==
    /\ fs' = IF f \in fs THEN fs \ {f} ELSE fs \cup {f}
    /\ UNCHANGED <<contents, packageJson, usage, dryRun, startMap, exportsMap, expanded,
                   buildPattern, wrote, runs, fixes, browserResult, path, calls>>
    /\ UNCHANGED <<treeVars, utilVars>>

NextCache ==
    \/ \E filePath \in CachePaths : GetFileExistenceFromCache(filePath)
    \/ \E f \in Range(CacheFiles) : FileSystemChange(f)

SpecCache == InitCache /\ [][NextCache]_vars

----------------------------------------------------------------------------
(* Properties *)

\* the last fixExports run generated a map
Generated == runs > 0 /\ Len(usage) > 0

\* C1: every key of the map generateExportsMap starts from (the existing exports
\* field, or the baseline) is in the returned map with the very same value,
\* whatever that value is.  Refuted: a key whose value is null is overwritten.
C1_Additivity ==
    Generated =>
        \A i \in 1..Len(startMap) :
            /\ MapHas(exportsMap, startMap[i][1])
            /\ MapGet(exportsMap, startMap[i][1]) = startMap[i][2]

\* C2: once fixExports has run without --dry-run, running it again on the
\* unchanged tree and usage file writes nothing.
C2_FixIdempotent ==
    (fixes >= 2 /\ ~dryRun) => ~wrote

C2_Witness ==
    /\ fixes >= 2
    /\ ~dryRun
    /\ ~wrote
    /\ Len(usage) > 0
    /\ Len(exportsMap) >= 2
    /\ packageJson.exports = Obj(exportsMap)

\* the usage loop wrote the entry of import path k (it was not skipped)
GeneratedFor(k) ==
    /\ Generated
    /\ \E j \in 1..Len(usage) : usage[j] = k /\ j <= Len(expanded) /\ expanded[j] # Skipped

ConditionOrder == <<"source", "types", "import", "require", "browser", "default">>

Rank(c) == CHOOSE r \in 1..Len(ConditionOrder) : ConditionOrder[r] = c

InConditionOrder(conds) ==
    \A i, j \in 1..Len(conds) : i < j => Rank(conds[i][1]) < Rank(conds[j][1])

\* the last run started from the map generateBaselineExports returned: the package
\* has no exports field, and every run that is not a dry run leaves one
BaselineUsed == Generated /\ packageJson.exports = None

\* C3: every conditions object a generator produces (baseline entries, entries of
\* generateExportEntry, pattern expansion) lists its keys as a subsequence of
\* source, types, import, require, browser, default.  Refuted: the exact-search
\* entry of a .ts file puts import after default.
C3_ConditionOrder ==
    /\ \A i \in 1..Len(startMap) :
          (BaselineUsed /\ startMap[i][2].kind = "object")
              => InConditionOrder(startMap[i][2].v)
    /\ \A i \in 1..Len(exportsMap) :
          (GeneratedFor(exportsMap[i][1]) /\ exportsMap[i][2].kind = "object")
              => InConditionOrder(exportsMap[i][2].v)

OnlyDefault(entry) ==
    /\ entry.kind = "object"
    /\ Len(entry.v) = 1
    /\ entry.v[1][1] = "default"

\* C4: a generated entry whose only condition is default is stored as the bare
\* string, never as an object holding the single key default.  Refuted: baseline
\* browser-mapping entries and pattern expansion keep the object.
C4_SingleKeyCollapse ==
    /\ \A i \in 1..Len(startMap) : BaselineUsed => ~OnlyDefault(startMap[i][2])
    /\ \A i \in 1..Len(exportsMap) :
          GeneratedFor(exportsMap[i][1]) => ~OnlyDefault(exportsMap[i][2])

\* the conditions of an entry as a set of key-value pairs; a bare string is its default
Conditions(entry) ==
    IF entry.kind = "object" THEN {entry.v[i] : i \in 1..Len(entry.v)}
    ELSE IF entry.kind = "string" THEN {<<"default", entry.v>>}
    ELSE {}

\* C7: usage path ./lib/utils, no dual build, src/utils.ts the only file: the
\* generated entry is source ./src/utils.ts, types ./lib/utils.d.ts,
\* import ./lib/utils.js, default ./lib/utils.js.  Refuted: the build directory
\* of the usage path is repeated and no source is found.
C7_SourceInference ==
    (/\ GeneratedFor(UseLibUtils)
     /\ ~buildPattern.hasMultipleBuilds
     /\ fs = {SrcUtilsTs})
    => Conditions(MapGet(exportsMap, UseLibUtils)) =
          { <<"source", <<DOT, SEP>> \o SrcUtilsTs>>,
            <<"types", <<DOT, SEP>> \o LibUtilsDts>>,
            <<"import", <<DOT, SEP>> \o LibUtilsJs>>,
            <<"default", <<DOT, SEP>> \o LibUtilsJs>> }

\* C8: usage path ./lib/utils.js, no dual build, lib/utils.js exists: the entry
\* has default ./lib/utils.js and types ./lib/utils.d.ts.  Refuted: the path is
\* rooted under lib a second time and the extension is appended twice.
C8_ExistingBuiltFile ==
    (/\ GeneratedFor(UseLibUtilsJs)
     /\ ~buildPattern.hasMultipleBuilds
     /\ LibUtilsJs \in fs)
    => /\ <<"default", UseLibUtilsJs>> \in Conditions(MapGet(exportsMap, UseLibUtilsJs))
       /\ <<"types", <<DOT, SEP>> \o LibUtilsDts>>
             \in Conditions(MapGet(exportsMap, UseLibUtilsJs))

\* C5: detectBuildPattern gives the same hasMultipleBuilds, patternType, cjsPattern
\* and esmPattern whichever of the two fields is passed as main and which as module.
C5_DetectSymmetric ==
    calls = 1 =>
        buildPattern = detectBuildPattern(packageJson.module, packageJson.main)

\* a dual build whose ESM side is the main field, told apart by the extension
\* with the ambiguous .js on one side
C5_Witness ==
    /\ calls = 1
    /\ buildPattern.hasMultipleBuilds
    /\ buildPattern.patternType = "extension"
    /\ getFileExtension(packageJson.main.v) = <<DOT, "js">>
    /\ buildPattern.esmPattern[2] = <<DOT, "js">>
    /\ buildPattern.cjsPattern[2] = getFileExtension(packageJson.module.v)

\* C6: normalizeRelativePath always yields a string that starts with "./", maps
\* the empty string to "./", and applied to its own result changes nothing.
C6_NormalizeIdempotent ==
    [][ /\ StartsWith(path', <<DOT, SEP>>)
        /\ (path = <<>> => path' = <<DOT, SEP>>)
        /\ (calls >= 1 => path' = path) ]_vars

\* a path that had to be prefixed, normalized a second time
C6_Witness ==
    /\ calls >= 2
    /\ Len(path) = MaxLen + 2
    /\ StartsWith(path, <<DOT, SEP, "a">>)

\* the candidates of pattern expansion for the usage path ./lib/<tail>, written
\* out per pattern type
UsageTail == Drop(usage[1], 4)

CjsCandidate ==
    CASE buildPattern.patternType = "directory" -> <<"lib", SEP, "cjs", SEP>> \o UsageTail
      [] buildPattern.patternType = "extension" -> <<"lib", SEP, "utils", DOT, "cjs">>
      [] buildPattern.patternType = "prefix" -> <<"lib", SEP, "cjs", DOT>> \o UsageTail

EsmCandidate ==
    CASE buildPattern.patternType = "directory" -> <<"lib", SEP, "esm", SEP>> \o UsageTail
      [] buildPattern.patternType = "extension" -> <<"lib", SEP, "utils", DOT, "mjs">>
      [] buildPattern.patternType = "prefix" -> <<"lib", SEP, "esm", DOT>> \o UsageTail

OriginalCandidate == <<"lib", SEP>> \o UsageTail

\* the files a candidate can resolve to: itself or its index, with one of the
\* extensions tried
Resolutions(candidate) ==
    {f \in fs : \E ext \in {<<>>, <<DOT, "js">>, <<DOT, "mjs">>, <<DOT, "cjs">>} :
        f = candidate \o ext \/ f = candidate \o <<SEP, "index">> \o ext}

DotSlash(files) == {<<DOT, SEP>> \o f : f \in files}

ConditionKeys(entry) == {c[1] : c \in Conditions(entry)}

\* C9: pattern expansion returns null when none of the CJS, ESM and original
\* candidates resolves to a file; otherwise the entry has import exactly when the
\* ESM candidate resolves (to such a file), require exactly when the CJS candidate
\* resolves, and default is the original match, else the ESM match, else the CJS match.
C9_PatternExpansion ==
    (Generated /\ buildPattern.hasMultipleBuilds /\ expanded[1] # Skipped) =>
        LET e == expanded[1]
            cjs == Resolutions(CjsCandidate)
            esm == Resolutions(EsmCandidate)
            original == Resolutions(OriginalCandidate)
        IN IF cjs = {} /\ esm = {} /\ original = {} THEN e = None
           ELSE /\ e.kind = "object"
                /\ MapGet(exportsMap, usage[1]) = e
                /\ ("import" \in ConditionKeys(e)) <=> (esm # {})
                /\ ("require" \in ConditionKeys(e)) <=> (cjs # {})
                /\ \A c \in Conditions(e) :
                      /\ c[1] = "import" => c[2] \in DotSlash(esm)
                      /\ c[1] = "require" => c[2] \in DotSlash(cjs)
                      /\ c[1] = "default" =>
                            IF original # {} THEN c[2] \in DotSlash(original)
                            ELSE IF esm # {} THEN <<"import", c[2]>> \in Conditions(e)
                            ELSE <<"require", c[2]>> \in Conditions(e)
                /\ "default" \in ConditionKeys(e)

\* no original file, both builds present: default is the ESM file
C9_Witness ==
    /\ Generated
    /\ buildPattern.patternType = "directory"
    /\ Resolutions(OriginalCandidate) = {}
    /\ Resolutions(CjsCandidate) # {}
    /\ Resolutions(EsmCandidate) # {}
    /\ expanded[1] = Obj(<< <<"import", <<DOT, SEP>> \o LibEsmUtilsJs>>,
                            <<"require", <<DOT, SEP>> \o LibCjsUtilsJs>>,
                            <<"default", <<DOT, SEP>> \o LibEsmUtilsJs>> >>)

\* the entries of the browser object whose normalized key is the normalized field
KeysMatching(field) ==
    {i \in 1..Len(packageJson.browser.v) :
        normalizeRelativePath(packageJson.browser.v[i][1]) = normalizeRelativePath(field.v)}

\* C10: when the browser object has a key equal to main with a value other than
\* false and a key equal to module, rootBrowser is the normalized value of the
\* main key and the module pair is in browserMappings, in whatever order the two
\* keys appear.  Refuted: with the module key first its pair is dropped.
C10_MainOverModule ==
    (/\ calls = 1
     /\ packageJson.main # None
     /\ packageJson.module # None
     /\ Cardinality(KeysMatching(packageJson.main)) = 1
     /\ Cardinality(KeysMatching(packageJson.module)) = 1
     /\ \A i \in KeysMatching(packageJson.main) : packageJson.browser.v[i][2] # False)
    => LET m == CHOOSE i \in KeysMatching(packageJson.main) : TRUE
           n == CHOOSE i \in KeysMatching(packageJson.module) : TRUE
           moduleKey == normalizeRelativePath(packageJson.browser.v[n][1])
       IN /\ browserResult.rootBrowser = BrowserValue(packageJson.browser.v[m][2])
          /\ MapHas(browserResult.browserMappings, moduleKey)
          /\ MapGet(browserResult.browserMappings, moduleKey) =
                BrowserValue(packageJson.browser.v[n][2])

\* the entries of the browser object that map the path of the field and are not
\* overridden by a later entry for the same path
LastKeysMatching(field) ==
    {i \in KeysMatching(field) :
        /\ packageJson.browser.v[i][2] # False
        /\ \A j \in KeysMatching(field) : j > i => packageJson.browser.v[j][2] = False}

\* C11: when a key of the browser object names the path of main, the baseline
\* root entry has browser equal to the value mapped to it (when that is not
\* false), the baseline map has no entry keyed by that path, and the path is
\* not a key of browserMappings.
C11_BrowserMainToRoot ==
    (/\ calls = 1
     /\ packageJson.browser.kind = "object"
     /\ ~Falsy(packageJson.main)
     /\ KeysMatching(packageJson.main) # {})
    => /\ \A i \in LastKeysMatching(packageJson.main) :
             <<"browser", BrowserValue(packageJson.browser.v[i][2]).v>>
                 \in Conditions(MapGet(startMap, S(DOT)))
       /\ ~MapHas(startMap, normalizeRelativePath(packageJson.main.v))
       /\ ~MapHas(browserResult.browserMappings, normalizeRelativePath(packageJson.main.v))

\* main is written without "./", the browser key with it; a second key stays a
\* separate entry
C11_Witness ==
    /\ calls = 1
    /\ packageJson.main = Str(LibIndexJs)
    /\ packageJson.browser =
          Obj(<< <<(<<DOT, SEP>> \o LibIndexJs), Str(BrowserJs)>>, <<UseLibUtilsJs, False>> >>)
    /\ MapGet(startMap, S(DOT)) =
          Obj(<< <<"require", <<DOT, SEP>> \o LibIndexJs>>, <<"browser", BrowserJs>>,
                 <<"default", <<DOT, SEP>> \o LibIndexJs>> >>)
    /\ MapKeys(startMap) = {UseLibUtilsJs, S(DOT)}

\* the normalized field, None when the field is not set
NormalizedField(field) == IF Falsy(field) THEN None ELSE Str(normalizeRelativePath(field.v))

\* the entries of the browser object with the value false whose path is neither
\* main nor module, and that no later entry of the object overrides
BlockedKeys ==
    {i \in 1..Len(packageJson.browser.v) :
        /\ packageJson.browser.v[i][2] = False
        /\ Str(normalizeRelativePath(packageJson.browser.v[i][1]))
              \notin {NormalizedField(packageJson.main), NormalizedField(packageJson.module)}
        /\ \A j \in 1..Len(packageJson.browser.v) :
              j > i => normalizeRelativePath(packageJson.browser.v[j][1])
                          # normalizeRelativePath(packageJson.browser.v[i][1])}

C13_RequireDefault ==
    (calls = 1 /\ ~Falsy(packageJson.main)) =>
        LET root == MapGet(startMap, S(DOT))
            mainPath == normalizeRelativePath(packageJson.main.v)
        IN /\ <<"default", mainPath>> \in Conditions(root)
           /\ ("require" \in ConditionKeys(root)) <=> (detected \in {"cjs", "unknown"})
           /\ \A c \in Conditions(root) : c[1] = "require" => c[2] = mainPath
           /\ ("import" \in ConditionKeys(root)) <=> ~Falsy(packageJson.module)

\* a .js main whose content holds ESM tokens, next to a module field: import and
\* default, no require
C13_Witness ==
    /\ calls = 1
    /\ packageJson.main = Str(LibIndexJs)
    /\ packageJson.type = ""
    /\ contents = [esm |-> TRUE, cjs |-> TRUE, readable |-> TRUE]
    /\ detected = "esm"
    /\ MapGet(startMap, S(DOT)) =
          Obj(<< <<"import", <<DOT, SEP>> \o LibIndexEsmJs>>,
                 <<"default", <<DOT, SEP>> \o LibIndexJs>> >>)

\* no field of the package gives the root entry a condition: no main, module,
\* types or typings, no browser string, and no source naming an existing file
\* (without main and module no key of a browser object maps the root)
NoRootCondition ==
    /\ Falsy(packageJson.main)
    /\ Falsy(packageJson.module)
    /\ Falsy(packageJson.types)
    /\ Falsy(packageJson.typings)
    /\ packageJson.browser.kind # "string"
    /\ (Falsy(packageJson.source) \/ packageJson.source.v \notin fs)

HasExtension(p, e) ==
    /\ Len(p) >= 3
    /\ p[Len(p)] = e
    /\ p[Len(p) - 1] = DOT
    /\ p[Len(p) - 2] # SEP

\* the file at the path can be read
Readable(p) ==
    /\ contents.readable
    /\ (IF Take(p, 2) = <<DOT, SEP>> THEN Drop(p, 2) ELSE p) \in fs

\* C15: detectModuleType decides by the first of: the extension .mjs (esm) or
\* .cjs (cjs); the package type module (esm) or commonjs (cjs); for a file that
\* can be read, ESM tokens (esm) and then CommonJS tokens (cjs); unknown otherwise.
C15_DetectionPriority ==
    calls = 1 =>
        detected =
            IF HasExtension(path, "mjs") THEN "esm"
            ELSE IF HasExtension(path, "cjs") THEN "cjs"
            ELSE IF packageJson.type = "module" THEN "esm"
            ELSE IF packageJson.type = "commonjs" THEN "cjs"
            ELSE IF Readable(path) /\ contents.esm THEN "esm"
            ELSE IF Readable(path) /\ contents.cjs THEN "cjs"
            ELSE "unknown"

\* a .mjs file with CommonJS tokens only, in a package of type commonjs
C15_Witness ==
    /\ calls = 1
    /\ path = <<DOT, SEP>> \o LibIndexMjs
    /\ packageJson.type = "commonjs"
    /\ LibIndexMjs \in fs
    /\ contents = [esm |-> FALSE, cjs |-> TRUE, readable |-> TRUE]
    /\ detected = "esm"

\* C16: a dry run of fixExports writes no package.json; a run that is not a dry
\* run writes the package.json of a package only when the map it generated for
\* the package differs from the exports field the file held.
C16_WriteDiscipline ==
    [][ /\ options'.dryRun => (written' = {} /\ tree' = tree)
        /\ \A i \in 1..Len(tree) :
              (i \in written' \/ tree'[i] # tree[i]) =>
                  /\ generated'[i] # None
                  /\ generated'[i] # tree[i].pj.exports ]_vars

\* one run, not a dry run, that wrote one package.json and left alone another
\* whose exports field already was the generated map
C16_Witness ==
    /\ runs >= 1
    /\ ~options.dryRun
    /\ \E i, j \in 1..Len(tree) :
          /\ i \in written
          /\ j \notin written
          /\ generated[j] # None
          /\ tree[j].pj.exports = generated[j]
          /\ tree[j].pj.exports = ExportsAuthored

\* the usage file lists an import path for the package
ListsUsage(pkg) ==
    \E k \in 1..Len(usageData) :
        usageData[k][1] = pkg.name /\ Len(usageData[k][2].importPaths) > 0

\* C17: a write of fixExports leaves every field of the package.json other than
\* exports as it was and makes exports the generated map; the package.json of a
\* package outside the working directory, filtered out by the package name
\* option, or without usage data is never written.
C17_OnlyExports ==
    [][ /\ Len(tree') = Len(tree)
        /\ \A i \in 1..Len(tree) :
              /\ tree'[i] = [tree[i] EXCEPT !.pj.exports = tree'[i].pj.exports]
              /\ i \in written' => tree'[i].pj.exports = generated'[i]
              /\ (i \in written' \/ tree'[i] # tree[i]) =>
                    /\ tree[i].inCwd
                    /\ tree[i].name # ""
                    /\ options'.packageName \in {"", tree[i].name}
                    /\ ListsUsage(tree[i]) ]_vars

\* two packages with usage data, the second outside the working directory: only
\* the first is written, and it keeps its main
C17_Witness ==
    /\ runs >= 1
    /\ Len(tree) = 2
    /\ written = {1}
    /\ tree[1].pj.main = MainLib
    /\ tree[1].pj.exports = generated[1]
    /\ ~tree[2].inCwd
    /\ ListsUsage(tree[2])
    /\ tree[2].pj.exports = None

\* the import paths the usage file lists for the package, <<>> when it has no record
ImportPathsOf(pkg) ==
    IF \E k \in 1..Len(usageData) : usageData[k][1] = pkg.name
    THEN usageData[CHOOSE k \in 1..Len(usageData) : usageData[k][1] = pkg.name][2].importPaths
    ELSE <<>>

\* C20: for a package whose usage record lists only the root import path ".",
\* fixExports generates no map and neither prints nor writes anything; a map is
\* generated only for a package with an import path other than ".".  Refuted:
\* every package with a non-empty importPaths list is processed.
C20_RootOnlySkipped ==
    runs >= 1 =>
        \A i \in 1..Len(tree) :
            /\ ImportPathsOf(tree[i]) = <<UseRoot>> =>
                  (generated[i] = None /\ i \notin written /\ i \notin printed)
            /\ generated[i] # None =>
                  \E k \in 1..Len(ImportPathsOf(tree[i])) : ImportPathsOf(tree[i])[k] # UseRoot

\* the record of the package in a usage file
RecordOf(data, name) == data[CHOOSE k \in 1..Len(data) : data[k][1] = name][2]

\* the list has no duplicates and is sorted by code units
StrictlySorted(paths) ==
    \A i \in 1..(Len(paths) - 1) : UnitsLess(Units(paths[i]), Units(paths[i + 1]))

\* no import of the scanned sources names the package
NotSeen(name, sources) ==
    \A i \in 1..Len(sources) : ~StartsWith(sources[i], name)

C19_CrossRepoFilter ==
    [][ options'.mainRepo # "" =>
          /\ \A m \in 1..Len(usageData') :
                usageData'[m][1] \notin MapKeys(usageData) =>
                    usageData'[m][1] \in repos[options'.mainRepo].packages
          /\ \A k \in 1..Len(usageData) :
                (/\ options'.usageFileReadable
                 /\ usageData[k][1] \notin repos[options'.mainRepo].packages)
                => RecordOf(usageData', usageData[k][1]) = usageData[k][2] ]_vars

\* the entry generateExportEntry returned for the import path under study
EntryOf == MapGet(exportsMap, path)

\* the value of a condition of an entry; <<>> when the entry does not set it
ConditionOf(entry, k) ==
    IF entry.kind = "string" THEN (IF k = "default" THEN entry.v ELSE <<>>)
    ELSE IF MapHas(entry.v, k) THEN MapGet(entry.v, k) ELSE <<>>

\* no build directory holds a file `<path><ext>` for a candidate extension
NoDirectFile ==
    \A b \in 1..Len(possibleBases), e \in 1..Len(possibleExtensions) :
        ~isFile(fs, <<possibleBases[b], SEP>> \o stripDotSlash(path) \o possibleExtensions[e])

\* the first build directory in which `<path>` is a directory holding index.js
IndexBase(b) ==
    /\ isFile(fs, <<possibleBases[b], SEP>> \o stripDotSlash(path) \o <<SEP, "index", DOT, "js">>)
    /\ \A c \in 1..(b - 1) : ~isDirectory(fs, <<possibleBases[c], SEP>> \o stripDotSlash(path))

\* C25: when `<buildDir>/<path>` is a directory holding index.js and no file
\* `<buildDir>/<path><ext>` exists for any candidate extension, the default
\* condition of the generated entry is `./<buildDir>/<path>/index.js`.
C25_DirectoryIndex ==
    (calls = 1 /\ NoDirectFile) =>
        \A b \in 1..Len(possibleBases) :
            IndexBase(b) =>
                ConditionOf(EntryOf, "default") =
                    <<DOT, SEP, possibleBases[b], SEP>> \o stripDotSlash(path)
                        \o <<SEP, "index", DOT, "js">>

\* C26: whenever the exact search sets `types`, the value ends in `.d.ts`,
\* names an existing file in the build directory of the resolved file and
\* differs from `default` (so a resolved file without extension or with a
\* .jsx extension gets `types` only from a `.d.ts` sibling).
C26_TypesSibling ==
    (/\ calls = 1
     /\ searchBuildDirs(fs, stripDotSlash(path)) # 0
     /\ ConditionOf(EntryOf, "types") # <<>>) =>
        /\ EndsWith(ConditionOf(EntryOf, "types"), DTS)
        /\ isFile(fs, ConditionOf(EntryOf, "types"))
        /\ ConditionOf(EntryOf, "types") # ConditionOf(EntryOf, "default")

\* the first source extension for which `source/utils<ext>` is on disk; 0 when none is
SubstitutedHit ==
    FirstIndex({i \in 1..Len(SOURCE_EXTENSIONS) :
        isFile(fs, <<"source", SEP, "utils">> \o SOURCE_EXTENSIONS[i])})

\* C27: for a target in the top-level build directory (`./build/utils.js`)
\* the `/build/` -> `/source/` substitution is tried before src and source
\* are probed directly: when `source/utils<ext>` exists for a source
\* extension, findSourceFile returns it, whatever src holds.
C27_MappingFirst ==
    (/\ calls = 1
     /\ stripDotSlash(path) = BuildUtilsJs
     /\ SubstitutedHit # 0) =>
        foundSource = <<DOT, SEP, "source", SEP, "utils">> \o SOURCE_EXTENSIONS[SubstitutedHit]

\* a map viewed as a mapping from key to value
AsMapping(map) == {map[i] : i \in 1..Len(map)}

\* map[k], undefined when the map has no such key
EntryAt(map, k) == IF MapHas(map, k) THEN MapGet(map, k) ELSE None

\* C24: for a fixed package and file-system state the map generateExportsMap
\* returns, viewed as a mapping from key to value, is the same for every
\* ordering of usage.importPaths and for lists that repeat a path, and the
\* entry of a usage path does not depend on the other paths of the list.
C24_OrderIndependence ==
    [][calls = 1 =>
         /\ \A p \in Range(usage') : EntryAt(exportsMap', p) = EntryAt(exportsMap, p)
         /\ (Range(usage') = Range(usage)) => (AsMapping(exportsMap') = AsMapping(exportsMap))
      ]_vars

C24_Witness ==
    /\ calls = 2
    /\ Len(usage) = 2
    /\ usage[1] # usage[2]
    /\ ~MapHas(startMap, usage[1])
    /\ ~MapHas(startMap, usage[2])
    /\ MapGet(exportsMap, usage[1]) # MapGet(exportsMap, usage[2])
    /\ exportsMap[Len(exportsMap)][1] = usage[2]

\* the exact search and the src inference of generateExportEntry both fail for
\* the import path, and no pattern expansion applies to it
LastResort(p) ==
    /\ tryPattern(fs, p, buildPattern) = None
    /\ searchBuildDirs(fs, stripDotSlash(p)) = 0
    /\ inferredEntry(fs, stripDotSlash(p)) = None

GeneratedKey(k) == packageJson.exports = None \/ ~Truthy(startMap, k)

\* every path an entry names starts with './'
RelativeEntry(entry) ==
    CASE entry.kind = "string" -> StartsWith(entry.v, <<DOT, SEP>>)
      [] entry.kind = "object" ->
             \A j \in 1..Len(entry.v) : StartsWith(entry.v[j][2], <<DOT, SEP>>)
      [] OTHER -> entry = Null

InFlight == {i \in 1..Len(ops) : ops[i].state = "pending"}

\* the chunk an input belongs to
ChunkOf(i) == CHOOSE k \in 1..Len(chunks) : i \in Range(chunks[k])

\* C23: bounded batch concurrency: while batchProcessFiles runs, the number of
\* operations started and not yet settled never exceeds batchConfig.concurrency,
\* and an operation of a later chunk has been started only if every operation
\* of every earlier chunk has settled
C23_BoundedConcurrency ==
    batch # "idle" =>
        /\ Cardinality(InFlight) <= batchConfig.concurrency
        /\ \A i, j \in 1..Len(ops) :
               (ChunkOf(i) < ChunkOf(j) /\ ops[j].state # "unstarted")
                   => ops[i].state \in {"fulfilled", "rejected"}

\* a full second chunk in flight after a first chunk that has settled
C23_Witness ==
    /\ batchConfig.concurrency = 2
    /\ Len(inputs) = 4
    /\ chunkIndex = 2
    /\ batch = "awaiting"
    /\ InFlight = Range(chunks[2])
    /\ Cardinality(InFlight) = 2
    /\ \A i \in Range(chunks[1]) : ops[i].state = "fulfilled"

\* every operation of the batch settles
AllSettle == \A i \in 1..Len(inputs) : inputs[i] # "never"

\* the record of input k of a batch that continues on error
BatchRecordOf(k) ==
    [input |-> k, success |-> inputs[k] = "ok",
     error |-> IF inputs[k] = "ok" THEN "" ELSE errorMsgOf(inputs[k])]

\* C21: batch continue-on-error: with continueOnError true batchProcessFiles
\* never rejects and, when every operation settles, resolves; the result holds
\* one record per input in input order, a throwing operation yields
\* success=false with its error message while every other operation has run,
\* and successCount + failureCount is the number of inputs.  With
\* continueOnError false a failing operation makes the batch reject.
C21_ContinueOnError ==
    /\ [](batch = "rejected"
              => /\ ~batchConfig.continueOnError
                 /\ \E i \in 1..Len(ops) : ops[i].state = "rejected")
    /\ []((batch = "resolved" /\ batchConfig.continueOnError)
              => /\ Len(batchResults) = Len(inputs)
                 /\ \A k \in 1..Len(inputs) : batchResults[k] = BatchRecordOf(k)
                 /\ \A k \in 1..Len(inputs) : ops[k].state = "fulfilled"
                 /\ returned.successCount + returned.failureCount = Len(inputs)
                 /\ returned.failureCount
                        = Cardinality({k \in 1..Len(inputs) : inputs[k] # "ok"}))
    /\ []((batch = "resolved" /\ ~batchConfig.continueOnError)
              => \A k \in 1..Len(inputs) : inputs[k] = "ok")
    /\ ((batch = "idle" /\ batchConfig.continueOnError /\ AllSettle) ~> (batch = "resolved"))
    /\ ((~batchConfig.continueOnError /\ \E i \in 1..Len(ops) : ops[i].state = "rejected")
            ~> (batch = "rejected"))

\* a batch of two chunks resolved with a throwing operation in the first chunk
\* and a succeeding one in the second
C21_Witness ==
    /\ batch = "resolved"
    /\ batchConfig.continueOnError
    /\ Len(chunks) = 2
    /\ Len(inputs) = 4
    /\ inputs[1] = "throw"
    /\ inputs[4] = "ok"
    /\ returned.failureCount >= 1
    /\ returned.successCount >= 1

\* C22: batch per-operation timeout: with continueOnError true an operation
\* that does not complete within operationTimeout is marked failed for its
\* input alone, and the batch eventually returns with a record for every
\* input, whatever a slow or never-completing operation does
C22_OperationTimeout ==
    /\ []((batch = "resolved" /\ batchConfig.continueOnError)
              => /\ Len(batchResults) = Len(inputs)
                 /\ \A k \in 1..Len(inputs) :
                        batchResults[k].success = (inputs[k] = "ok"))
    /\ ((batch = "idle" /\ batchConfig.continueOnError) ~> (batch = "resolved"))

\* the last call of getFileExistenceFromCache, after a step that made one
LastAnswer == answers'[Len(answers')]

\* C28: existence cache consistency: a path with or without a leading ./
\* refers to the same cache entry; a call for a path in the cache returns the
\* cached value without probing the file system, a call for a path not in the
\* cache returns the probed existence and stores it; so every call for a path
\* returns what the first one returned, whatever happens to the file
C28_CacheConsistency ==
    /\ [][answers' # answers =>
            /\ MapHas(cache, stripDotSlash(LastAnswer.path))
                   => /\ LastAnswer.exists = MapGet(cache, stripDotSlash(LastAnswer.path))
                      /\ probes' = probes
                      /\ cache' = cache
            /\ ~MapHas(cache, stripDotSlash(LastAnswer.path))
                   => /\ LastAnswer.exists = existsSync(fs, stripDotSlash(LastAnswer.path))
                      /\ probes' = probes + 1
                      /\ cache' = MapSet(cache, stripDotSlash(LastAnswer.path),
                                         LastAnswer.exists)]_vars
    /\ [](\A i \in 1..Len(cache) : ~StartsWith(cache[i][1], <<DOT, SEP>>))
    /\ [](\A i, j \in 1..Len(answers) :
              stripDotSlash(answers[i].path) = stripDotSlash(answers[j].path)
                  => answers[i].exists = answers[j].exists)

\* a path looked up without ./, the file deleted, then the path looked up with ./
C28_Witness ==
    /\ Len(answers) >= 2
    /\ answers[1].path = LibUtilsJs
    /\ answers[2].path = <<DOT, SEP>> \o LibUtilsJs
    /\ answers[1].exists
    /\ answers[2].exists
    /\ probes = 1
    /\ ~existsSync(fs, LibUtilsJs)

====
